---- MODULE Spec2Model ----
(***************************************************************************)
(* Model of scripts/replayTransaction.ts: the error-data decoding core     *)
(* (decodeErrorData, decodeCustomErrorData, getDeployableContractEntities, *)
(* decodeRevertMessage, decodePanicCode, panicErrorCodeToReason).          *)
(*                                                                         *)
(* JavaScript strings are modelled as sequences of one-character strings,  *)
(* so that startsWith, substring and concatenation act on characters as in *)
(* the script.  Byte strings are sequences of integers 0..255 and a        *)
(* uint256 is a sequence of 32 bytes, most significant first.              *)
(***************************************************************************)
EXTENDS Integers, Sequences, FiniteSets, TLC

(***************************************************************************)
(* Text constants of the script.                                           *)
(***************************************************************************)
\* A variant of one space.
textLevelIndentOneSpace == <<" ">>

textLevelIndent == <<" "," ">>

RevertSelectorText == <<"0","x","0","8","c","3","7","9","a","0">>

PanicSelectorText == <<"0","x","4","e","4","8","7","b","7","1">>

RevertedWithTheMessageText == <<"R","e","v","e","r","t","e","d"," ","w","i","t","h"," ","t","h","e"," ","m","e","s","s","a","g","e",":"," ","\"">>

RevertedWithTheMessageEnd == <<"\"",".">>

PanickedWithTheCodeText == <<"P","a","n","i","c","k","e","d"," ","w","i","t","h"," ","t","h","e"," ","c","o","d","e",":"," ","\"">>

PanickedReasonOpen == <<"\"","(">>

PanickedReasonClose == <<")",".">>

CustomErrorHeaderText == <<"R","e","v","e","r","t","e","d"," ","w","i","t","h"," ","a"," ","c","u","s","t","o","m"," ","e","r","r","o","r"," ","(","o","r"," ","s","e","v","e","r","a","l"," ","s","u","i","t","a","b","l","e"," ","o","n","e","s",")",":","\n">>

CantBeDecodedText == <<"R","e","v","e","r","t","e","d"," ","w","i","t","h"," ","a"," ","c","u","s","t","o","m"," ","e","r","r","o","r"," ","t","h","a","t"," ","c","a","n","'","t"," ","b","e"," ","d","e","c","o","d","e","d"," ","u","s","i","n","g"," ","t","h","e"," ","p","r","o","v","i","d","e","d"," ","c","o","n","t","r","a","c","t","s",".","\n">>

TryToAddText == <<"T","r","y"," ","t","o"," ","a","d","d"," ","m","o","r","e"," ","c","o","n","t","r","a","c","t","(","s",")"," ","t","o"," ","t","h","e"," ","\"","c","o","n","t","r","a","c","t","s","\""," ","d","i","r","e","c","t","o","r","y"," ","t","o"," ","g","e","t"," ","d","e","c","o","d","e","d"," ","e","r","r","o","r",".">>

AlsoItCanBeText == <<" ","A","l","s","o"," ","i","t"," ","c","a","n"," ","b","e"," ","t","h","e"," ","f","o","l","l","o","w","i","n","g"," ","c","u","s","t","o","m"," ","e","r","r","o","r","(","s",")",":","\n">>

FromContractText == <<" ","-","-"," ","f","r","o","m"," ","c","o","n","t","r","a","c","t"," ","\"">>

NewLine == <<"\n">>

Quote == <<"\"">>

(***************************************************************************)
(* String primitives of JavaScript used by the script.                     *)
(***************************************************************************)
startsWith(s, p) == Len(s) >= Len(p) /\ SubSeq(s, 1, Len(p)) = p

\* s.substring(n): the characters from 0-based index n to the end.
substring(s, n) == SubSeq(s, n + 1, Len(s))

\* s.substring(a, b) with a <= b: 0-based, b exclusive, clipped to the length.
substringTo(s, a, b) == SubSeq(s, a + 1, IF b < Len(s) THEN b ELSE Len(s))

RECURSIVE join(_, _)
\* parts.join(sep)
join(parts, sep) ==
    IF Len(parts) = 0 THEN <<>>
    ELSE IF Len(parts) = 1 THEN parts[1]
    ELSE parts[1] \o sep \o join(Tail(parts), sep)

(***************************************************************************)
(* Hex text and bytes (ethers.utils: isHexString, hexlify, arrayify).      *)
(***************************************************************************)
LowerHex == <<"0","1","2","3","4","5","6","7","8","9","a","b","c","d","e","f">>

UpperHex == <<"0","1","2","3","4","5","6","7","8","9","A","B","C","D","E","F">>

IsHexDigit(c) == \E i \in 1..16 : LowerHex[i] = c \/ UpperHex[i] = c

HexVal(c) == (CHOOSE i \in 1..16 : LowerHex[i] = c \/ UpperHex[i] = c) - 1

isHexString(s) ==
    /\ Len(s) >= 2
    /\ s[1] = "0"
    /\ s[2] = "x"
    /\ \A i \in 3..Len(s) : IsHexDigit(s[i])

Failure == [ok |-> FALSE]

Success(v) == [ok |-> TRUE, value |-> v]

\* hexlify(text): the text in lower case; throws unless it is hex text of even length.
hexlifyText(s) ==
    IF isHexString(s) /\ Len(s) % 2 = 0
    THEN Success([i \in 1..Len(s) |-> IF i <= 2 THEN s[i] ELSE LowerHex[HexVal(s[i]) + 1]])
    ELSE Failure

\* arrayify(text): the bytes the hex text denotes; throws unless hex text of even length.
arrayify(s) ==
    IF isHexString(s) /\ Len(s) % 2 = 0
    THEN Success([i \in 1..((Len(s) - 2) \div 2) |->
                    16 * HexVal(s[2 * i + 1]) + HexVal(s[2 * i + 2])])
    ELSE Failure

\* The lower-case hex digits of the bytes, two per byte.
HexOfBytes(b) ==
    [i \in 1..(2 * Len(b)) |->
        IF i % 2 = 1 THEN LowerHex[(b[(i + 1) \div 2] \div 16) + 1]
        ELSE LowerHex[(b[i \div 2] % 16) + 1]]

\* hexlify(bytes)
hexlifyBytes(b) == <<"0", "x">> \o HexOfBytes(b)

(***************************************************************************)
(* BigNumber (a uint256 word of 32 bytes).                                 *)
(***************************************************************************)
IsZero(b) == \A i \in 1..Len(b) : b[i] = 0

\* The bytes without their leading zero bytes.
StripZeros(b) ==
    IF IsZero(b) THEN <<>>
    ELSE SubSeq(b, CHOOSE i \in 1..Len(b) : b[i] # 0 /\ \A j \in 1..(i - 1) : b[j] = 0, Len(b))

\* BigNumber.toHexString(): "0x" and the hex digits, of even length, "0x00" for zero.
toHexString(w) == IF IsZero(w) THEN <<"0","x","0","0">> ELSE hexlifyBytes(StripZeros(w))

\* BigNumber.toNumber() throws above Number.MAX_SAFE_INTEGER = 2^53 - 1.
FitsSafeInteger(w) == IsZero(SubSeq(w, 1, 25)) /\ w[26] <= 31

\* The number a word denotes when it is below 2^24; every larger number is
\* represented by 2^24, which is above every table code, offset and length
\* of the model.
toNumber(w) ==
    IF IsZero(SubSeq(w, 1, 29))
    THEN w[30] * 65536 + w[31] * 256 + w[32]
    ELSE 16777216

Quot10(b) ==
    LET rem[i \in 0..Len(b)] == IF i = 0 THEN 0 ELSE (rem[i - 1] * 256 + b[i]) % 10
    IN  [i \in 1..Len(b) |-> (rem[i - 1] * 256 + b[i]) \div 10]

Rem10(b) ==
    LET rem[i \in 0..Len(b)] == IF i = 0 THEN 0 ELSE (rem[i - 1] * 256 + b[i]) % 10
    IN  rem[Len(b)]

RECURSIVE Decimal(_)
Decimal(b) ==
    IF Len(b) = 0 THEN <<>>
    ELSE Decimal(StripZeros(Quot10(b))) \o <<LowerHex[Rem10(b) + 1]>>

\* BigNumber.toString(): the decimal digits.
bigNumberToString(w) == IF IsZero(w) THEN <<"0">> ELSE Decimal(StripZeros(w))

(***************************************************************************)
(* UTF-8 (ethers.utils.toUtf8String), over the printable ASCII range       *)
(* 0x20..0x7e; a byte outside it makes the decode throw in the model (the  *)
(* inputs of the model use 0xff, which no UTF-8 text contains).            *)
(***************************************************************************)
\* (the grave accent, 0x60, cannot be written in a string: it is the atom "grave")
Ascii ==
    <<" ","!","\"","#","$","%","&","'","(",")","*","+",",","-",".","/","0","1","2","3","4","5","6","7","8","9",":",";","<","=",">","?">>
    \o <<"@","A","B","C","D","E","F","G","H","I","J","K","L","M","N","O","P","Q","R","S","T","U","V","W","X","Y","Z","[","\\","]","^","_">> \o <<"grave">>
    \o <<"a","b","c","d","e","f","g","h","i","j","k","l","m","n","o","p","q","r","s","t","u","v","w","x","y","z","{","|","}","~">>

toUtf8String(b) ==
    IF \A i \in 1..Len(b) : b[i] >= 32 /\ b[i] <= 126
    THEN Success([i \in 1..Len(b) |-> Ascii[b[i] - 31]])
    ELSE Failure

toUtf8Bytes(s) == [i \in 1..Len(s) |-> 31 + CHOOSE k \in 1..95 : Ascii[k] = s[i]]

(***************************************************************************)
(* ABI coder (ethers.utils.defaultAbiCoder.decode, strict: not loose).     *)
(* A decode result is Failure when decoding, or reading a decoded value,   *)
(* throws: both callers read every value they decode.                      *)
(***************************************************************************)
\* Reader.readValue at 0-based offset off: 32 bytes, or a buffer overrun.
readValue(data, off) ==
    IF off + 32 <= Len(data) THEN Success(SubSeq(data, off + 1, off + 32)) ELSE Failure

\* StringCoder.decode in a reader based at base: a length word, then the
\* bytes, padded to a multiple of 32, all inside the data.
decodeStringAt(data, base) ==
    LET lengthWord == readValue(data, base)
        length     == toNumber(lengthWord.value)
        aligned    == ((length + 31) \div 32) * 32
    IN  IF ~lengthWord.ok THEN Failure
        ELSE IF ~FitsSafeInteger(lengthWord.value) THEN Failure
        ELSE IF base + 32 + aligned > Len(data) THEN Failure
        ELSE toUtf8String(SubSeq(data, base + 33, base + 32 + length))

\* One value of the tuple whose head slot is at 0-based offset head.
decodeValue(type, data, head) ==
    LET word == readValue(data, head)
    IN  IF ~word.ok THEN Failure
        ELSE IF type = "uint256" THEN Success([type |-> "uint256", word |-> word.value])
        ELSE IF type = "bytes32" THEN Success([type |-> "bytes32", bytes |-> word.value])
        ELSE \* "string": the head slot holds the offset of the tail
             IF ~FitsSafeInteger(word.value) THEN Failure
             ELSE LET text == decodeStringAt(data, toNumber(word.value))
                  IN  IF text.ok THEN Success([type |-> "string", text |-> text.value])
                      ELSE Failure

\* defaultAbiCoder.decode(types, hexText)
abiDecode(types, hexText) ==
    LET bytes  == arrayify(hexText)
        values == [i \in 1..Len(types) |-> decodeValue(types[i], bytes.value, 32 * (i - 1))]
    IN  IF ~bytes.ok THEN Failure
        ELSE IF \E i \in 1..Len(types) : ~values[i].ok THEN Failure
        ELSE Success([i \in 1..Len(types) |-> values[i].value])

\* arg.toString() of a decoded value
argToString(arg) ==
    IF arg.type = "uint256" THEN bigNumberToString(arg.word)
    ELSE IF arg.type = "bytes32" THEN hexlifyBytes(arg.bytes)
    ELSE arg.text

(***************************************************************************)
(* Interface.parseError(errorData) of a contract factory's interface: an   *)
(* interface is the sequence of its error fragments [name, sighash,        *)
(* inputs], the sighash being the text "0x" and 8 lower-case hex digits.   *)
(***************************************************************************)
\* A variant that takes a fragment whose sighash starts with the text before
\* the payload, also when that text is shorter than a sighash.
parseErrorByPrefix(interface, errorData) ==
    LET hexData == hexlifyText(errorData)
        sighash == substringTo(hexData.value, 0, 10)
        matching == {i \in 1..Len(interface) : startsWith(interface[i].sighash, sighash)}
        fragment == interface[CHOOSE i \in matching : \A j \in matching : i <= j]
        args == abiDecode(fragment.inputs, <<"0", "x">> \o substring(hexData.value, 10))
    IN  IF ~hexData.ok THEN Failure
        ELSE IF matching = {} THEN Failure
        ELSE IF ~args.ok THEN Failure
        ELSE Success([errorFragment |-> fragment, args |-> args.value])

parseError(interface, errorData) ==
    LET hexData == hexlifyText(errorData)
        sighash == substringTo(hexData.value, 0, 10)
        matching == {i \in 1..Len(interface) : interface[i].sighash = sighash}
        fragment == interface[CHOOSE i \in matching : \A j \in matching : i <= j]
        args == abiDecode(fragment.inputs, <<"0", "x">> \o substring(hexData.value, 10))
    IN  IF ~hexData.ok THEN Failure
        ELSE IF matching = {} THEN Failure
        ELSE IF ~args.ok THEN Failure
        ELSE Success([errorFragment |-> fragment, args |-> args.value])

(***************************************************************************)
(* panicErrorCodeToReason                                                  *)
(***************************************************************************)
\* A variant with the reasons of 0x11 and 0x12 exchanged.
panicErrorCodeToReasonExchanged(errorCode) ==
    CASE errorCode = 1  -> <<"A","s","s","e","r","t","i","o","n"," ","e","r","r","o","r">>
      [] errorCode = 18 -> <<"A","r","i","t","h","m","e","t","i","c"," ","o","p","e","r","a","t","i","o","n"," ","u","n","d","e","r","f","l","o","w","e","d"," ","o","r"," ","o","v","e","r","f","l","o","w","e","d"," ","o","u","t","s","i","d","e"," ","o","f"," ","a","n"," ","u","n","c","h","e","c","k","e","d"," ","b","l","o","c","k">>
      [] errorCode = 17 -> <<"D","i","v","i","s","i","o","n"," ","o","r"," ","m","o","d","u","l","o"," ","d","i","v","i","s","i","o","n"," ","b","y"," ","z","e","r","o">>
      [] errorCode = 33 -> <<"T","r","i","e","d"," ","t","o"," ","c","o","n","v","e","r","t"," ","a"," ","v","a","l","u","e"," ","i","n","t","o"," ","a","n"," ","e","n","u","m",","," ","b","u","t"," ","t","h","e"," ","v","a","l","u","e"," ","w","a","s"," ","t","o","o"," ","b","i","g"," ","o","r"," ","n","e","g","a","t","i","v","e">>
      [] errorCode = 34 -> <<"I","n","c","o","r","r","e","c","t","l","y"," ","e","n","c","o","d","e","d"," ","s","t","o","r","a","g","e"," ","b","y","t","e"," ","a","r","r","a","y">>
      [] errorCode = 49 -> <<".","p","o","p","(",")"," ","w","a","s"," ","c","a","l","l","e","d"," ","o","n"," ","a","n"," ","e","m","p","t","y"," ","a","r","r","a","y">>
      [] errorCode = 50 -> <<"A","r","r","a","y"," ","a","c","c","e","s","s","e","d"," ","a","t"," ","a","n"," ","o","u","t","-","o","f","-","b","o","u","n","d","s"," ","o","r"," ","n","e","g","a","t","i","v","e"," ","i","n","d","e","x">>
      [] errorCode = 65 -> <<"T","o","o"," ","m","u","c","h"," ","m","e","m","o","r","y"," ","w","a","s"," ","a","l","l","o","c","a","t","e","d",","," ","o","r"," ","a","n"," ","a","r","r","a","y"," ","w","a","s"," ","c","r","e","a","t","e","d"," ","t","h","a","t"," ","i","s"," ","t","o","o"," ","l","a","r","g","e">>
      [] errorCode = 81 -> <<"C","a","l","l","e","d"," ","a"," ","z","e","r","o","-","i","n","i","t","i","a","l","i","z","e","d"," ","v","a","r","i","a","b","l","e"," ","o","f"," ","i","n","t","e","r","n","a","l"," ","f","u","n","c","t","i","o","n"," ","t","y","p","e">>
      [] OTHER -> <<"?","?","?">>

panicErrorCodeToReason(errorCode) ==
    CASE errorCode = 1  -> <<"A","s","s","e","r","t","i","o","n"," ","e","r","r","o","r">>
      [] errorCode = 17 -> <<"A","r","i","t","h","m","e","t","i","c"," ","o","p","e","r","a","t","i","o","n"," ","u","n","d","e","r","f","l","o","w","e","d"," ","o","r"," ","o","v","e","r","f","l","o","w","e","d"," ","o","u","t","s","i","d","e"," ","o","f"," ","a","n"," ","u","n","c","h","e","c","k","e","d"," ","b","l","o","c","k">>
      [] errorCode = 18 -> <<"D","i","v","i","s","i","o","n"," ","o","r"," ","m","o","d","u","l","o"," ","d","i","v","i","s","i","o","n"," ","b","y"," ","z","e","r","o">>
      [] errorCode = 33 -> <<"T","r","i","e","d"," ","t","o"," ","c","o","n","v","e","r","t"," ","a"," ","v","a","l","u","e"," ","i","n","t","o"," ","a","n"," ","e","n","u","m",","," ","b","u","t"," ","t","h","e"," ","v","a","l","u","e"," ","w","a","s"," ","t","o","o"," ","b","i","g"," ","o","r"," ","n","e","g","a","t","i","v","e">>
      [] errorCode = 34 -> <<"I","n","c","o","r","r","e","c","t","l","y"," ","e","n","c","o","d","e","d"," ","s","t","o","r","a","g","e"," ","b","y","t","e"," ","a","r","r","a","y">>
      [] errorCode = 49 -> <<".","p","o","p","(",")"," ","w","a","s"," ","c","a","l","l","e","d"," ","o","n"," ","a","n"," ","e","m","p","t","y"," ","a","r","r","a","y">>
      [] errorCode = 50 -> <<"A","r","r","a","y"," ","a","c","c","e","s","s","e","d"," ","a","t"," ","a","n"," ","o","u","t","-","o","f","-","b","o","u","n","d","s"," ","o","r"," ","n","e","g","a","t","i","v","e"," ","i","n","d","e","x">>
      [] errorCode = 65 -> <<"T","o","o"," ","m","u","c","h"," ","m","e","m","o","r","y"," ","w","a","s"," ","a","l","l","o","c","a","t","e","d",","," ","o","r"," ","a","n"," ","a","r","r","a","y"," ","w","a","s"," ","c","r","e","a","t","e","d"," ","t","h","a","t"," ","i","s"," ","t","o","o"," ","l","a","r","g","e">>
      [] errorCode = 81 -> <<"C","a","l","l","e","d"," ","a"," ","z","e","r","o","-","i","n","i","t","i","a","l","i","z","e","d"," ","v","a","r","i","a","b","l","e"," ","o","f"," ","i","n","t","e","r","n","a","l"," ","f","u","n","c","t","i","o","n"," ","t","y","p","e">>
      [] OTHER -> <<"?","?","?">>

(***************************************************************************)
(* decodeRevertMessage, decodePanicCode: Success(text) or Failure (throw). *)
(***************************************************************************)
\* A variant that cuts the selector off at the wrong place (8 instead of 10).
decodeRevertMessageCutAt8(errorData) ==
    LET content == <<"0", "x">> \o substring(errorData, 8)
        reason  == abiDecode(<<"string">>, content)
    IN  IF ~reason.ok THEN Failure
        ELSE Success(RevertedWithTheMessageText \o reason.value[1].text
                     \o RevertedWithTheMessageEnd)

decodeRevertMessage(errorData) ==
    LET content == <<"0", "x">> \o substring(errorData, 10)
        reason  == abiDecode(<<"string">>, content)
    IN  IF ~reason.ok THEN Failure
        ELSE Success(RevertedWithTheMessageText \o reason.value[1].text
                     \o RevertedWithTheMessageEnd)

decodePanicCode(errorData) ==
    LET content == <<"0", "x">> \o substring(errorData, 10)
        code    == abiDecode(<<"uint256">>, content)
        codeHex == toHexString(code.value[1].word)
        reason  == panicErrorCodeToReason(toNumber(code.value[1].word))
    IN  IF ~code.ok THEN Failure
        ELSE IF ~FitsSafeInteger(code.value[1].word) THEN Failure
        ELSE Success(PanickedWithTheCodeText \o codeHex \o PanickedReasonOpen
                     \o reason \o PanickedReasonClose)

(***************************************************************************)
(* The body of the forEach callback of decodeCustomErrorData for one       *)
(* contract entity: Success(decodedError), or Failure when the try block   *)
(* throws (which the catch absorbs).                                       *)
(***************************************************************************)
\* A variant that quotes every argument.
renderArgQuoted(arg) == Quote \o argToString(arg) \o Quote

renderArg(arg) ==
    LET argString == argToString(arg)
    IN  IF startsWith(argString, <<"0", "x">>)
        THEN Quote \o argString \o Quote
        ELSE argString

decodeWithEntity(contractEntity, errorData) ==
    LET errorDescription == parseError(contractEntity.contractFactory.interface, errorData)
        args         == errorDescription.value.args
        decodedArgs  == join([i \in 1..Len(args) |-> renderArg(args[i])], <<",", " ">>)
        contractName == contractEntity.artifact.contractName
    IN  IF ~errorDescription.ok THEN Failure
        ELSE Success(errorDescription.value.errorFragment.name \o <<"(">> \o decodedArgs
                     \o <<")">> \o FromContractText \o contractName \o Quote)

(***************************************************************************)
(* decodeErrorData, lines 105-128: the report composed from the decoded    *)
(* custom error strings, or Failure when a standard decode throws.         *)
(***************************************************************************)
\* A variant that never appends the secondary block.
alsoBlockNever(decodedCustomErrorStrings, nextLevelTextIndent) == <<>>

\* Lines 122-127: the secondary block appended to a standard report.
alsoBlock(decodedCustomErrorStrings, nextLevelTextIndent) ==
    IF Len(decodedCustomErrorStrings) > 0
    THEN AlsoItCanBeText \o nextLevelTextIndent
         \o join(decodedCustomErrorStrings, NewLine \o nextLevelTextIndent)
    ELSE <<>>

\* A variant that joins the decoded errors with a bare line break.
customErrorReportBareBreak(textIndent, nextLevelTextIndent, decodedCustomErrorStrings) ==
    IF Len(decodedCustomErrorStrings) > 0
    THEN textIndent \o CustomErrorHeaderText \o nextLevelTextIndent
         \o join(decodedCustomErrorStrings, NewLine)
    ELSE textIndent \o CantBeDecodedText \o textIndent \o TryToAddText

\* A variant that does not indent the second line of the fallback.
customErrorReportNoIndent(textIndent, nextLevelTextIndent, decodedCustomErrorStrings) ==
    IF Len(decodedCustomErrorStrings) > 0
    THEN textIndent \o CustomErrorHeaderText \o nextLevelTextIndent
         \o join(decodedCustomErrorStrings, NewLine \o nextLevelTextIndent)
    ELSE textIndent \o CantBeDecodedText \o TryToAddText

\* Lines 113-120: the report of error data without a standard selector.
customErrorReport(textIndent, nextLevelTextIndent, decodedCustomErrorStrings) ==
    IF Len(decodedCustomErrorStrings) > 0
    THEN textIndent \o CustomErrorHeaderText \o nextLevelTextIndent
         \o join(decodedCustomErrorStrings, NewLine \o nextLevelTextIndent)
    ELSE textIndent \o CantBeDecodedText \o textIndent \o TryToAddText

\* A variant that reports a failed standard decode as a custom error.
composeReportMasking(errorData, textIndent, decodedCustomErrorStrings) ==
    LET nextLevelTextIndent == textIndent \o textLevelIndent
        message == decodeRevertMessage(errorData)
        panic   == decodePanicCode(errorData)
    IN  IF startsWith(errorData, RevertSelectorText) /\ message.ok
        THEN Success(textIndent \o message.value
                     \o alsoBlock(decodedCustomErrorStrings, nextLevelTextIndent))
        ELSE IF startsWith(errorData, PanicSelectorText) /\ panic.ok
        THEN Success(textIndent \o panic.value
                     \o alsoBlock(decodedCustomErrorStrings, nextLevelTextIndent))
        ELSE Success(customErrorReport(textIndent, nextLevelTextIndent,
                                       decodedCustomErrorStrings))

\* Lines 105-128: the report, or Failure when a standard decode throws.
composeReport(errorData, textIndent, decodedCustomErrorStrings) ==
    LET nextLevelTextIndent == textIndent \o textLevelIndent
        message == decodeRevertMessage(errorData)
        panic   == decodePanicCode(errorData)
    IN  IF startsWith(errorData, RevertSelectorText)
        THEN IF message.ok
             THEN Success(textIndent \o message.value
                          \o alsoBlock(decodedCustomErrorStrings, nextLevelTextIndent))
             ELSE Failure
        ELSE IF startsWith(errorData, PanicSelectorText)
        THEN IF panic.ok
             THEN Success(textIndent \o panic.value
                          \o alsoBlock(decodedCustomErrorStrings, nextLevelTextIndent))
             ELSE Failure
        ELSE Success(customErrorReport(textIndent, nextLevelTextIndent,
                                       decodedCustomErrorStrings))

(***************************************************************************)
(* The environment: compiled artifacts and error data.                     *)
(***************************************************************************)
\* Error fragments of the artifacts' ABIs, with their keccak-256 sighashes.
FragZeroAccount ==
    [name |-> <<"Z","e","r","o","A","c","c","o","u","n","t">>, sighash |-> <<"0","x","b","f","c","f","3","c","0","b">>, inputs |-> <<>>]

FragAmountExcess ==
    [name |-> <<"A","m","o","u","n","t","E","x","c","e","s","s">>, sighash |-> <<"0","x","3","6","e","2","8","e","4","8">>, inputs |-> <<"uint256">>]

FragOperationFailed ==
    [name |-> <<"O","p","e","r","a","t","i","o","n","F","a","i","l","e","d">>, sighash |-> <<"0","x","8","b","a","a","4","f","e","0">>,
     inputs |-> <<"string", "uint256">>]

FragHashMismatch ==
    [name |-> <<"H","a","s","h","M","i","s","m","a","t","c","h">>, sighash |-> <<"0","x","7","d","7","e","4","b","f","b">>, inputs |-> <<"bytes32">>]

FragError ==
    [name |-> <<"E","r","r","o","r">>, sighash |-> <<"0","x","0","8","c","3","7","9","a","0">>, inputs |-> <<"string">>]

FragPanic ==
    [name |-> <<"P","a","n","i","c">>, sighash |-> <<"0","x","4","e","4","8","7","b","7","1">>, inputs |-> <<"uint256">>]

\* Compiled artifacts: the full name, the contract name, the bytecode ("0x"
\* for an interface or an abstract contract) and the errors of the ABI.
ArtifactUniverse ==
    { [fullName |-> <<"c","o","n","t","r","a","c","t","s","/","P","r","o","c","e","s","s","o","r",".","s","o","l",":","C","a","r","d","P","a","y","m","e","n","t","P","r","o","c","e","s","s","o","r">>,
       contractName |-> <<"C","a","r","d","P","a","y","m","e","n","t","P","r","o","c","e","s","s","o","r">>,
       bytecode |-> <<"0","x","6","0","8","0">>,
       errors |-> <<FragZeroAccount, FragAmountExcess, FragOperationFailed>>],
      [fullName |-> <<"c","o","n","t","r","a","c","t","s","/","P","r","o","c","e","s","s","o","r",".","s","o","l",":","I","C","a","r","d","P","a","y","m","e","n","t","P","r","o","c","e","s","s","o","r">>,
       contractName |-> <<"I","C","a","r","d","P","a","y","m","e","n","t","P","r","o","c","e","s","s","o","r">>,
       bytecode |-> <<"0","x">>,
       errors |-> <<FragZeroAccount, FragHashMismatch>>],
      [fullName |-> <<"c","o","n","t","r","a","c","t","s","/","T","o","k","e","n",".","s","o","l",":","T","o","k","e","n">>,
       contractName |-> <<"T","o","k","e","n">>,
       bytecode |-> <<"0","x","6","0","8","0">>,
       errors |-> <<FragZeroAccount, FragHashMismatch, FragError, FragPanic>>],
      [fullName |-> <<"c","o","n","t","r","a","c","t","s","/","l","e","g","a","c","y","/","T","o","k","e","n",".","s","o","l",":","T","o","k","e","n">>,
       contractName |-> <<"T","o","k","e","n">>,
       bytecode |-> <<"0","x","6","0","a","0">>,
       errors |-> <<FragPanic, FragZeroAccount>>] }

\* The largest number of compiled artifacts of a run of the model.
MaxArtifacts == 3

\* The artifact directories of the model: sequences of distinct artifacts.
ArtifactLists ==
    UNION { {s \in [1..n -> ArtifactUniverse] : \A i, j \in 1..n : i # j => s[i] # s[j]}
            : n \in 0..MaxArtifacts }

\* ABI encoding, as the EVM emits revert data.
Word(n) == [i \in 1..32 |-> IF i = 30 THEN (n \div 65536) % 256
                            ELSE IF i = 31 THEN (n \div 256) % 256
                            ELSE IF i = 32 THEN n % 256
                            ELSE 0]

PadRight(b) == b \o [i \in 1..((32 - (Len(b) % 32)) % 32) |-> 0]

encodeStringTail(s) == Word(Len(s)) \o PadRight(toUtf8Bytes(s))

encodeString(s) == Word(32) \o encodeStringTail(s)

Messages ==
    { <<"i","n","s","u","f","f","i","c","i","e","n","t"," ","f","u","n","d","s">>, <<>>, <<"O","w","n","a","b","l","e",":"," ","c","a","l","l","e","r"," ","i","s"," ","n","o","t"," ","t","h","e"," ","o","w","n","e","r">>,
      <<"0","x","1"," ","i","s"," ","n","o","t"," ","\"","a","l","l","o","w","e","d","\""," ","(","s","e","e"," ","d","o","c","s",")">> }

\* 2^53 - 1, the largest number toNumber() returns
WordMaxSafe == [i \in 1..32 |-> IF i < 26 THEN 0 ELSE IF i = 26 THEN 31 ELSE 255]

\* 2^53
WordAboveSafe == [i \in 1..32 |-> IF i = 26 THEN 32 ELSE 0]

\* 2^256 - 1
WordMax == [i \in 1..32 |-> 255]

TablePanicCodes == {1, 17, 18, 33, 34, 49, 50, 65, 81}

PanicCodeWords ==
    {Word(c) : c \in TablePanicCodes \cup {0, 153, 291, 4660}}
    \cup {WordMaxSafe, WordAboveSafe, WordMax}

RevertData(message) == RevertSelectorText \o HexOfBytes(encodeString(message))

PanicData(word) == PanicSelectorText \o HexOfBytes(word)

CustomData(fragment, payload) == fragment.sighash \o HexOfBytes(payload)

WellFormedCustomData ==
    { CustomData(FragZeroAccount, <<>>),
      CustomData(FragAmountExcess, Word(42)),
      CustomData(FragAmountExcess, WordMax),
      CustomData(FragHashMismatch, [i \in 1..32 |-> 171]),
      CustomData(FragOperationFailed, Word(64) \o Word(7) \o encodeStringTail(<<"0","x","d","e","a","d">>)),
      CustomData(FragOperationFailed, Word(64) \o WordMaxSafe \o encodeStringTail(<<"l","i","m","i","t">>)),
      CustomData(FragOperationFailed, Word(64) \o Word(0) \o encodeStringTail(<<"a","0","x">>)) }

MalformedData ==
    { RevertSelectorText,
      RevertSelectorText \o HexOfBytes(Word(32)),
      RevertSelectorText \o HexOfBytes(Word(32) \o Word(1) \o PadRight(<<255>>)),
      RevertSelectorText \o HexOfBytes(Word(32) \o Word(40) \o PadRight(toUtf8Bytes(<<"s","h","o","r","t">>))),
      PanicSelectorText,
      PanicSelectorText \o HexOfBytes(SubSeq(Word(17), 1, 31)),
      CustomData(FragAmountExcess, <<>>),
      CustomData(FragOperationFailed, Word(64) \o Word(7)),
      <<"0","x","d","e","a","d","b","e","e","f">>,
      <<"0","x","d","e","a","d","b","e","e","f">> \o HexOfBytes(Word(1)),
      <<"0","x","0","8","c","3","7","9">>,
      <<"0","x","4","e">>,
      <<"0","x","b","f","c","f","3","c">>,
      <<"0","x">> }

\* The error data of the model: lower-case hex text of whole bytes, as a
\* JSON-RPC node returns it in the `data` of a rejected transaction.
ErrorDataSamples ==
    {RevertData(m) : m \in Messages}
    \cup {PanicData(w) : w \in PanicCodeWords}
    \cup WellFormedCustomData
    \cup MalformedData

TextIndents == { <<>>, <<" "," "," "," "," "," "," ">> }

(***************************************************************************)
(* State of one call decodeErrorData(errorData, textIndent).               *)
(***************************************************************************)
VARIABLES
    errorData,                  \* the argument errorData
    textIndent,                 \* the argument textIndent
    artifactFiles,              \* the compiled artifacts, in the order of their names
    pc,                         \* the await or statement the call is at
    contractFullNames,          \* getDeployableContractEntities: contractFullNames
    nameIndex,                  \* position of the for-of loop in contractFullNames
    artifact,                   \* the artifact read in the current iteration
    deployableContractEntities, \* the entities pushed so far / returned
    entityIndex,                \* position of forEach in the entities
    decodedCustomErrorStrings,  \* decodeCustomErrorData: decodedCustomErrorStrings
    result,                     \* the report decodeErrorData returned
    factoryRequests,            \* the names ethers.getContractFactory was called with
    parseAttempts,              \* the entities parseError was called on, in call order
    enumerations,               \* how often getAllFullyQualifiedNames has returned
    rpcUrl,                     \* process.env.RPC
    txHash,                     \* process.env.HASH
    mainPc,                     \* the await main is at
    txResponse,                 \* main: txResponse
    callLog,                    \* the requests main sent and their completions, in order
    output,                     \* the lines written with console.log, in order
    previousCalls,              \* the finished calls of decodeErrorData: arguments and outcome
    payments,                   \* CardPaymentProcessor: _payments
    unclearedBalances,          \* _unclearedBalances
    clearedBalances,            \* _clearedBalances
    totalUnclearedBalance,      \* _totalUnclearedBalance
    totalClearedBalance,        \* _totalClearedBalance
    paymentRevocationFlags,     \* the parent transaction hashes flagged in _paymentRevocationFlags
    paymentReversionFlags,      \* the parent transaction hashes flagged in _paymentReversionFlags
    revocationLimit,            \* _revocationLimit
    cashOutAccount,             \* _cashOutAccount
    roles,                      \* AccessControl: the members of each role
    paused                      \* Pausable: _paused

\* The state of the script around a call of decodeErrorData.
callerVars == <<rpcUrl, txHash, mainPc, txResponse, callLog, output, previousCalls>>

\* The storage of the CardPaymentProcessor contract.
cardVars == <<payments, unclearedBalances, clearedBalances, totalUnclearedBalance,
              totalClearedBalance, paymentRevocationFlags, paymentReversionFlags,
              revocationLimit, cashOutAccount, roles, paused>>

\* The state of the replay script.
scriptVars == <<errorData, textIndent, artifactFiles, pc, contractFullNames, nameIndex,
                artifact, deployableContractEntities, entityIndex,
                decodedCustomErrorStrings, result, factoryRequests, parseAttempts,
                enumerations, rpcUrl, txHash, mainPc, txResponse, callLog, output,
                previousCalls>>

vars == <<scriptVars, cardVars>>

\* The contract is not deployed: the script runs on its own.
NoCard ==
    /\ payments = <<>>
    /\ unclearedBalances = <<>>
    /\ clearedBalances = <<>>
    /\ totalUnclearedBalance = 0
    /\ totalClearedBalance = 0
    /\ paymentRevocationFlags = {}
    /\ paymentReversionFlags = {}
    /\ revocationLimit = 0
    /\ cashOutAccount = <<>>
    /\ roles = <<>>
    /\ paused = FALSE

NoArtifact == [fullName |-> <<>>, contractName |-> <<>>, bytecode |-> <<>>, errors |-> <<>>]

\* provider.getTransaction resolved with null.
NoTransaction == [exists |-> FALSE]

\* No script around the call: decodeErrorData is called on its own.
NoCaller ==
    /\ rpcUrl = <<>>
    /\ txHash = <<>>
    /\ mainPc = "none"
    /\ txResponse = NoTransaction
    /\ callLog = <<>>
    /\ output = <<>>
    /\ previousCalls = {}

Init ==
    /\ errorData \in ErrorDataSamples
    /\ textIndent \in TextIndents
    /\ artifactFiles \in ArtifactLists
    /\ pc = "getAllFullyQualifiedNames"
    /\ contractFullNames = <<>>
    /\ nameIndex = 1
    /\ artifact = NoArtifact
    /\ deployableContractEntities = <<>>
    /\ entityIndex = 1
    /\ decodedCustomErrorStrings = <<>>
    /\ result = <<>>
    /\ factoryRequests = <<>>
    /\ parseAttempts = <<>>
    /\ enumerations = 0
    /\ NoCaller
    /\ NoCard

\* A variant that leaves the loop after its first iteration.
AfterIterationLeaving(names, index) == "forEach"

\* The statement after one iteration of the for-of loop of
\* getDeployableContractEntities: the next iteration, or the return into
\* decodeCustomErrorData.
AfterIteration(names, index) ==
    IF index + 1 <= Len(names) THEN "readArtifact" ELSE "forEach"

\* artifacts.readArtifact(contractFullName)
readArtifact(contractFullName) ==
    CHOOSE a \in {artifactFiles[i] : i \in 1..Len(artifactFiles)} :
        a.fullName = contractFullName

\* A variant that resolves the factory of the first name of the directory.
getContractFactoryOfFirst(contractFullName) ==
    [interface |-> artifactFiles[1].errors]

\* ethers.getContractFactory(contractFullName): the factory of the artifact's ABI
getContractFactory(contractFullName) ==
    [interface |-> readArtifact(contractFullName).errors]

\* Lines 102-104 and 50-51: decodeErrorData calls decodeCustomErrorData, which
\* calls getDeployableContractEntities, which awaits the names.
GetAllFullyQualifiedNames ==
    /\ pc = "getAllFullyQualifiedNames"
    /\ contractFullNames' = [i \in 1..Len(artifactFiles) |-> artifactFiles[i].fullName]
    /\ enumerations' = enumerations + 1
    /\ deployableContractEntities' = <<>>
    /\ nameIndex' = 1
    /\ pc' = IF Len(artifactFiles) > 0 THEN "readArtifact" ELSE "forEach"
    /\ UNCHANGED <<errorData, textIndent, artifactFiles, artifact, entityIndex,
                   decodedCustomErrorStrings, result, factoryRequests, parseAttempts>>
    /\ UNCHANGED callerVars
    /\ UNCHANGED cardVars

\* A variant that takes no artifact for deployable.
isDeployableNever(someArtifact) == FALSE

\* A variant that takes every artifact for deployable.
isDeployableAlways(someArtifact) == TRUE

\* Line 54: the bytecode test.
isDeployable(someArtifact) == someArtifact.bytecode # <<"0", "x">>

\* Lines 53-54: await artifacts.readArtifact, then the bytecode test.
ReadArtifact ==
    /\ pc = "readArtifact"
    /\ artifact' = readArtifact(contractFullNames[nameIndex])
    /\ IF isDeployable(artifact')
       THEN /\ pc' = "getContractFactory"
            /\ UNCHANGED nameIndex
       ELSE /\ pc' = AfterIteration(contractFullNames, nameIndex)
            /\ nameIndex' = nameIndex + 1
    /\ UNCHANGED <<errorData, textIndent, artifactFiles, contractFullNames,
                   deployableContractEntities, entityIndex, decodedCustomErrorStrings,
                   result, factoryRequests, parseAttempts, enumerations>>
    /\ UNCHANGED callerVars
    /\ UNCHANGED cardVars

\* Lines 55-56: await ethers.getContractFactory, then the push.
GetContractFactory ==
    /\ pc = "getContractFactory"
    /\ factoryRequests' = Append(factoryRequests, contractFullNames[nameIndex])
    /\ deployableContractEntities' =
           Append(deployableContractEntities,
                  [artifact |-> artifact,
                   contractFactory |-> getContractFactory(contractFullNames[nameIndex])])
    /\ pc' = AfterIteration(contractFullNames, nameIndex)
    /\ nameIndex' = nameIndex + 1
    /\ UNCHANGED <<errorData, textIndent, artifactFiles, contractFullNames, artifact,
                   entityIndex, decodedCustomErrorStrings, result, parseAttempts,
                   enumerations>>
    /\ UNCHANGED callerVars
    /\ UNCHANGED cardVars

\* A variant that does not push a decoded error the strings already hold.
pushDecodedOnce(strings, contractEntity, data) ==
    LET decoded == decodeWithEntity(contractEntity, data)
    IN  IF decoded.ok /\ \A i \in 1..Len(strings) : strings[i] # decoded.value
        THEN Append(strings, decoded.value)
        ELSE strings

\* A variant whose catch block drops the strings collected so far.
pushDecodedOrReset(strings, contractEntity, data) ==
    LET decoded == decodeWithEntity(contractEntity, data)
    IN  IF decoded.ok THEN Append(strings, decoded.value) ELSE <<>>

\* The strings after the forEach callback ran on one more entity: the try
\* block pushes the decoded error, the catch block does nothing.
pushDecoded(strings, contractEntity, data) ==
    LET decoded == decodeWithEntity(contractEntity, data)
    IN  IF decoded.ok THEN Append(strings, decoded.value) ELSE strings

\* Lines 66-83: one call of the forEach callback.
ForEachEntity ==
    /\ pc = "forEach"
    /\ entityIndex <= Len(deployableContractEntities)
    /\ parseAttempts' = Append(parseAttempts, entityIndex)
    /\ decodedCustomErrorStrings' =
           pushDecoded(decodedCustomErrorStrings,
                       deployableContractEntities[entityIndex], errorData)
    /\ entityIndex' = entityIndex + 1
    /\ UNCHANGED <<errorData, textIndent, artifactFiles, pc, contractFullNames,
                   nameIndex, artifact, deployableContractEntities, result,
                   factoryRequests, enumerations>>
    /\ UNCHANGED callerVars
    /\ UNCHANGED cardVars

\* Lines 85 and 105-128: decodeCustomErrorData returns, the report is
\* composed and returned, or a standard decode throws.
ComposeReport ==
    /\ pc = "forEach"
    /\ entityIndex > Len(deployableContractEntities)
    /\ LET report == composeReport(errorData, textIndent, decodedCustomErrorStrings)
       IN  IF report.ok
           THEN /\ result' = report.value
                /\ pc' = "returned"
           ELSE /\ UNCHANGED result
                /\ pc' = "thrown"
    /\ UNCHANGED <<errorData, textIndent, artifactFiles, contractFullNames, nameIndex,
                   artifact, deployableContractEntities, entityIndex,
                   decodedCustomErrorStrings, factoryRequests, parseAttempts,
                   enumerations>>
    /\ UNCHANGED callerVars
    /\ UNCHANGED cardVars

Next ==
    \/ GetAllFullyQualifiedNames
    \/ ReadArtifact
    \/ GetContractFactory
    \/ ForEachEntity
    \/ ComposeReport

Spec == Init /\ [][Next]_vars

(***************************************************************************)
(* A call of decodeErrorData from a caller                                 *)
(***************************************************************************)
\* A variant that keeps the strings of the call before, as a list declared
\* outside the function would.
keptDecodedCustomErrorStrings(previous) == previous

\* Line 64: const decodedCustomErrorStrings: string[] = [], a list of the call.
newDecodedCustomErrorStrings(previous) == <<>>

\* Lines 102-104, 63 and 50-51: the call starts with locals of its own and runs
\* to the await of the names.  The locals of the callees are set here, where
\* the call starts, to the values their declarations (lines 51 and 64) give.
CallDecodeErrorData(data, indent) ==
    /\ errorData' = data
    /\ textIndent' = indent
    /\ pc' = "getAllFullyQualifiedNames"
    /\ contractFullNames' = <<>>
    /\ nameIndex' = 1
    /\ artifact' = NoArtifact
    /\ deployableContractEntities' = <<>>
    /\ entityIndex' = 1
    /\ decodedCustomErrorStrings' = newDecodedCustomErrorStrings(decodedCustomErrorStrings)
    /\ result' = <<>>
    /\ factoryRequests' = <<>>
    /\ parseAttempts' = <<>>
    /\ UNCHANGED <<artifactFiles, enumerations>>

(***************************************************************************)
(* Repeated calls of decodeErrorData in one process                        *)
(***************************************************************************)
MaxCalls == 3

\* The error data of the repeated calls: a custom error two contracts of the
\* directory declare, a revert message, and a panic code toNumber() rejects.
CallErrorData ==
    { CustomData(FragZeroAccount, <<>>),
      RevertData(<<"i","n","s","u","f","f","i","c","i","e","n","t"," ","f","u","n","d","s">>),
      PanicData(WordAboveSafe) }

CallsInit ==
    /\ errorData \in CallErrorData
    /\ textIndent \in TextIndents
    /\ artifactFiles \in ArtifactLists
    /\ pc = "getAllFullyQualifiedNames"
    /\ contractFullNames = <<>>
    /\ nameIndex = 1
    /\ artifact = NoArtifact
    /\ deployableContractEntities = <<>>
    /\ entityIndex = 1
    /\ decodedCustomErrorStrings = <<>>
    /\ result = <<>>
    /\ factoryRequests = <<>>
    /\ parseAttempts = <<>>
    /\ enumerations = 0
    /\ NoCaller
    /\ NoCard

\* The finished call: its arguments, what decodeCustomErrorData returned and
\* how decodeErrorData ended.
FinishedCall ==
    [errorData |-> errorData, textIndent |-> textIndent, outcome |-> pc,
     decodedCustomErrorStrings |-> decodedCustomErrorStrings, result |-> result]

\* The caller calls decodeErrorData again, with any arguments, after the call
\* before has returned or thrown.
CallAgain ==
    /\ pc \in {"returned", "thrown"}
    /\ enumerations < MaxCalls
    /\ previousCalls' = previousCalls \cup {FinishedCall}
    /\ \E data \in CallErrorData, indent \in TextIndents :
           CallDecodeErrorData(data, indent)
    /\ UNCHANGED cardVars
    /\ UNCHANGED <<rpcUrl, txHash, mainPc, txResponse, callLog, output>>

CallsNext ==
    \/ GetAllFullyQualifiedNames
    \/ ReadArtifact
    \/ GetContractFactory
    \/ ForEachEntity
    \/ ComposeReport
    \/ CallAgain

SpecCalls == CallsInit /\ [][CallsNext]_vars

(***************************************************************************)
(* The script: module top level and main                                   *)
(***************************************************************************)
MaxBlockNumber == 2

\* process.env.RPC and process.env.HASH of a run.
RpcUrls == { <<"h","t","t","p","s",":","/","/","r","p","c",".","o","n","e">>, <<"h","t","t","p",":","/","/","1","2","7",".","0",".","0",".","1",":","7","5","4","5">> }
TxHashes == { <<"0","x","5","c","5","0","4","e","d","4","3","2","c","b","5","1","1","3","8","b","c","f","0","9","a","a","5","e","8","a","4","1","0","d","d","4","a","1","e","2","0","4","e","f","8","4","b","f","e","d","1","b","e","1","6","d","f","b","a","1","b","2","2","0","6","0">> }

\* A value that may be undefined or null.
Undefined == [defined |-> FALSE]
Defined(v) == [defined |-> TRUE, value |-> v]

RawTransaction == <<"0","x","f","8","6","b","0","1","8","5">>

\* What provider.getTransaction can resolve with: null, or a response whose
\* blockNumber is null (pending) or a number and whose raw is missing, empty
\* or the signed transaction.
TxResponses ==
    {NoTransaction} \cup
    [exists : {TRUE},
     blockNumber : {Undefined} \cup {Defined(n) : n \in 0..MaxBlockNumber},
     raw : {Undefined, Defined(<<>>), Defined(RawTransaction)}]

\* The error data the fork's node can reject the transaction with.
MainErrorData ==
    { RevertData(<<"i","n","s","u","f","f","i","c","i","e","n","t"," ","f","u","n","d","s">>),
      RevertSelectorText \o HexOfBytes(Word(32)),
      PanicData(Word(17)),
      PanicData(WordAboveSafe),
      PanicSelectorText,
      CustomData(FragZeroAccount, <<>>),
      CustomData(FragOperationFailed, Word(64) \o Word(7) \o encodeStringTail(<<"0","x","d","e","a","d">>)),
      <<"0","x","d","e","a","d","b","e","e","f">>,
      <<"0","x","4","e">> }

\* How ethers.provider.sendTransaction can settle: resolved, or rejected with
\* an error whose data is missing, "0x" or error data.
SendOutcomes ==
    {[ok |-> TRUE]} \cup
    [ok : {FALSE},
     data : {Undefined, Defined(<<"0","x">>)} \cup {Defined(d) : d \in MainErrorData}]

\* A variant that takes the number 0 for a block number.
notNumberMissing(x) == ~x.defined

\* !x of a number or null, of a string or undefined.
notNumber(x) == ~x.defined \/ x.value = 0
notString(x) == ~x.defined \/ Len(x.value) = 0

\* console.log
Log(line, text) == [line |-> line, text |-> text]

\* A request and its completion in callLog.
Settled(method) == [event |-> "settled", method |-> method]

\* Lines 134-136 and 193: the indent main passes to decodeErrorData.
textIndent3 == textLevelIndent \o textLevelIndent \o textLevelIndent

\* A variant that forks at the block of the transaction.
previousBlockNumberSame(blockNumber) == blockNumber

\* Line 161
previousBlockNumber(blockNumber) == blockNumber - 1

MainInit ==
    /\ rpcUrl \in RpcUrls
    /\ txHash \in TxHashes
    /\ artifactFiles \in ArtifactLists
    /\ mainPc = "start"
    /\ txResponse = NoTransaction
    /\ callLog = <<>>
    /\ output = <<>>
    /\ previousCalls = {}
    /\ errorData = <<>>
    /\ textIndent = <<>>
    /\ pc = "idle"
    /\ contractFullNames = <<>>
    /\ nameIndex = 1
    /\ artifact = NoArtifact
    /\ deployableContractEntities = <<>>
    /\ entityIndex = 1
    /\ decodedCustomErrorStrings = <<>>
    /\ result = <<>>
    /\ factoryRequests = <<>>
    /\ parseAttempts = <<>>
    /\ enumerations = 0
    /\ NoCard

decodeVars == <<errorData, textIndent, artifactFiles, pc, contractFullNames, nameIndex,
                artifact, deployableContractEntities, entityIndex,
                decodedCustomErrorStrings, result, factoryRequests, parseAttempts,
                enumerations>>

\* A variant whose top level logs FINISHED only when main has ended: none at
\* this step.
RunScriptAwaitingMain ==
    /\ mainPc = "start"
    /\ output' = << Log("STARTED", <<>>),
                    Log("rpcUrl", rpcUrl),
                    Log("txHash", txHash),
                    Log("Replaying the transaction with hash", txHash),
                    Log("Original network RPC URL:", rpcUrl),
                    Log("", <<>>),
                    Log("Getting the transaction response from the original network ...", <<>>) >>
    /\ callLog' = << [event |-> "request", method |-> "getTransaction",
                      provider |-> rpcUrl, transactionHash |-> txHash] >>
    /\ mainPc' = "getTransaction"
    /\ UNCHANGED cardVars
    /\ UNCHANGED <<rpcUrl, txHash, txResponse, previousCalls>>
    /\ UNCHANGED <<errorData, textIndent, artifactFiles, pc, contractFullNames, nameIndex,
                   artifact, deployableContractEntities, entityIndex,
                   decodedCustomErrorStrings, result, factoryRequests, parseAttempts,
                   enumerations>>

\* Lines 198-202 and 133-142: the module's top level logs, calls main, which
\* runs to its first await with the request of the transaction sent, and logs
\* FINISHED.
RunScript ==
    /\ mainPc = "start"
    /\ output' = << Log("STARTED", <<>>),
                    Log("rpcUrl", rpcUrl),
                    Log("txHash", txHash),
                    Log("Replaying the transaction with hash", txHash),
                    Log("Original network RPC URL:", rpcUrl),
                    Log("", <<>>),
                    Log("Getting the transaction response from the original network ...", <<>>),
                    Log("FINISHED", <<>>) >>
    /\ callLog' = << [event |-> "request", method |-> "getTransaction",
                      provider |-> rpcUrl, transactionHash |-> txHash] >>
    /\ mainPc' = "getTransaction"
    /\ UNCHANGED cardVars
    /\ UNCHANGED <<rpcUrl, txHash, txResponse, previousCalls>>
    /\ UNCHANGED decodeVars

\* Lines 142-173: the transaction request resolves; the three tests; the
\* request of hardhat_reset.
GetTransactionResolves ==
    /\ mainPc = "getTransaction"
    /\ \E response \in TxResponses :
        /\ txResponse' = response
        /\ IF ~response.exists
           THEN /\ output' = Append(output,
                      Log("The transaction with the provided hash does not exist.", <<>>))
                /\ callLog' = Append(callLog, Settled("getTransaction"))
                /\ mainPc' = "resolved"
           ELSE IF notNumber(response.blockNumber)
           THEN /\ output' = Append(output,
                      Log("The transaction with the provided hash has not been minted yet.", <<>>))
                /\ callLog' = Append(callLog, Settled("getTransaction"))
                /\ mainPc' = "resolved"
           ELSE IF notString(response.raw)
           THEN /\ output' = Append(output,
                      Log("The transaction does not have the raw data with the signature. Check the RPC!", <<>>))
                /\ callLog' = Append(callLog, Settled("getTransaction"))
                /\ mainPc' = "resolved"
           ELSE /\ output' = output \o
                      << Log("The transaction has been gotten successfully:", <<>>),
                         Log("The block number of the transaction in the original chain:", <<>>),
                         Log("The raw data of the signed transaction:", response.raw.value),
                         Log("", <<>>),
                         Log("Resetting the Hardhat network with forking for the previous block ...", <<>>) >>
                /\ callLog' = callLog \o
                      << Settled("getTransaction"),
                         [event |-> "request", method |-> "hardhat_reset",
                          jsonRpcUrl |-> rpcUrl,
                          blockNumber |-> previousBlockNumber(response.blockNumber.value)] >>
                /\ mainPc' = "hardhat_reset"
    /\ UNCHANGED cardVars
    /\ UNCHANGED <<rpcUrl, txHash, previousCalls>>
    /\ UNCHANGED decodeVars

\* An awaited request outside the try block is rejected (the node is not
\* reachable, the fork cannot be made): the error leaves main.
RequestRejected ==
    /\ mainPc \in {"getTransaction", "hardhat_reset", "evm_mine"}
    /\ callLog' = Append(callLog, Settled(mainPc))
    /\ mainPc' = "rejected"
    /\ UNCHANGED cardVars
    /\ UNCHANGED <<rpcUrl, txHash, txResponse, output, previousCalls>>
    /\ UNCHANGED decodeVars

\* Lines 163-178: hardhat_reset resolves; the request of evm_mine.
HardhatResetResolves ==
    /\ mainPc = "hardhat_reset"
    /\ output' = output \o
           << Log("The resetting has done successfully. The current block:", <<>>),
              Log("", <<>>),
              Log("Minting the block", <<>>) >>
    /\ callLog' = callLog \o
           << Settled("hardhat_reset"), [event |-> "request", method |-> "evm_mine"] >>
    /\ mainPc' = "evm_mine"
    /\ UNCHANGED cardVars
    /\ UNCHANGED <<rpcUrl, txHash, txResponse, previousCalls>>
    /\ UNCHANGED decodeVars

\* Lines 178-184: evm_mine resolves; the raw transaction is sent.
EvmMineResolves ==
    /\ mainPc = "evm_mine"
    /\ output' = output \o
           << Log("The minting has done successfully.", <<>>),
              Log("", <<>>),
              Log("Sending the transaction to the forked network ...", <<>>) >>
    /\ callLog' = callLog \o
           << Settled("evm_mine"),
              [event |-> "request", method |-> "sendTransaction",
               signedTransaction |-> txResponse.raw.value] >>
    /\ mainPc' = "sendTransaction"
    /\ UNCHANGED cardVars
    /\ UNCHANGED <<rpcUrl, txHash, txResponse, previousCalls>>
    /\ UNCHANGED decodeVars

\* Lines 184-185: the transaction is accepted.
SendTransactionResolves ==
    /\ mainPc = "sendTransaction"
    /\ output' = Append(output, Log("The transaction has been sent successfully!", <<>>))
    /\ callLog' = Append(callLog, Settled("sendTransaction"))
    /\ mainPc' = "resolved"
    /\ UNCHANGED cardVars
    /\ UNCHANGED <<rpcUrl, txHash, txResponse, previousCalls>>
    /\ UNCHANGED decodeVars

\* A variant that asks for error data of any length.
hasErrorDataOfAnyLength(data) == ~notString(data)

\* Line 190: !!errorData && errorData.length > 2
hasErrorData(data) == ~notString(data) /\ Len(data.value) > 2

\* Lines 186-193: the transaction is rejected; the catch block logs and, for
\* error data of more than two characters, calls decodeErrorData.
SendTransactionRejected ==
    /\ mainPc = "sendTransaction"
    /\ callLog' = Append(callLog, Settled("sendTransaction"))
    /\ \E e \in SendOutcomes :
        /\ ~e.ok
        /\ LET logged ==
                   output \o
                   << Log("Transaction sending failed!", <<>>),
                      Log("The exception message:", <<>>),
                      Log("The error data:",
                          IF e.data.defined THEN e.data.value ELSE <<"u","n","d","e","f","i","n","e","d">>) >>
           IN  IF hasErrorData(e.data)
               THEN /\ output' = Append(logged,
                                        Log("The result of error data decoding:", <<>>))
                    /\ CallDecodeErrorData(e.data.value, textIndent3 \o <<" ">>)
                    /\ mainPc' = "decodeErrorData"
               ELSE /\ output' = logged
                    /\ mainPc' = "resolved"
                    /\ UNCHANGED decodeVars
    /\ UNCHANGED cardVars
    /\ UNCHANGED <<rpcUrl, txHash, txResponse, previousCalls>>

\* A variant with a handler around the call of decodeErrorData.
mainAfterDecodeErrorDataHandled(outcome) == "resolved"

\* Line 193: main after the awaited decodeErrorData: with its report main
\* goes on to its end; its error is thrown inside the catch block, where
\* nothing handles it, and leaves main.
mainAfterDecodeErrorData(outcome) ==
    IF outcome = "thrown" THEN "rejected" ELSE "resolved"

\* Line 193: decodeErrorData has returned or thrown.
DecodeErrorDataSettles ==
    /\ mainPc = "decodeErrorData"
    /\ pc \in {"returned", "thrown"}
    /\ output' = IF pc = "returned" THEN Append(output, Log("report", result)) ELSE output
    /\ mainPc' = mainAfterDecodeErrorData(pc)
    /\ UNCHANGED cardVars
    /\ UNCHANGED <<rpcUrl, txHash, txResponse, callLog, previousCalls>>
    /\ UNCHANGED decodeVars

MainNext ==
    \/ RunScript
    \/ GetTransactionResolves
    \/ RequestRejected
    \/ HardhatResetResolves
    \/ EvmMineResolves
    \/ SendTransactionResolves
    \/ SendTransactionRejected
    \/ GetAllFullyQualifiedNames
    \/ ReadArtifact
    \/ GetContractFactory
    \/ ForEachEntity
    \/ ComposeReport
    \/ DecodeErrorDataSettles

SpecMain == MainInit /\ [][MainNext]_vars

(***************************************************************************)
(* Error data written with upper-case hex digits                           *)
(***************************************************************************)
\* The text with the hex digits from position first to position last in upper
\* case; the "0x" in front is left as it is.
UpperCased(s, first, last) ==
    [i \in 1..Len(s) |->
        IF i >= first /\ i <= last /\ i > 2 THEN UpperHex[HexVal(s[i]) + 1] ELSE s[i]]

\* The spellings of the bytes of a hex text: as given (lower case), with the
\* selector in upper case, and with every digit in upper case.
Spellings(s) == {s, UpperCased(s, 3, 10), UpperCased(s, 3, Len(s))}

CaseBaseData ==
    { RevertData(<<"i","n","s","u","f","f","i","c","i","e","n","t"," ","f","u","n","d","s">>),
      PanicData(Word(17)),
      CustomData(FragZeroAccount, <<>>),
      CustomData(FragHashMismatch, [i \in 1..32 |-> 171]),
      <<"0","x","d","e","a","d","b","e","e","f">> }

\* The error data of the calls: every spelling of the base data.
CaseErrorData == UNION {Spellings(d) : d \in CaseBaseData}

CaseInit ==
    /\ errorData \in CaseErrorData
    /\ textIndent \in TextIndents
    /\ artifactFiles \in ArtifactLists
    /\ pc = "getAllFullyQualifiedNames"
    /\ contractFullNames = <<>>
    /\ nameIndex = 1
    /\ artifact = NoArtifact
    /\ deployableContractEntities = <<>>
    /\ entityIndex = 1
    /\ decodedCustomErrorStrings = <<>>
    /\ result = <<>>
    /\ factoryRequests = <<>>
    /\ parseAttempts = <<>>
    /\ enumerations = 0
    /\ NoCaller
    /\ NoCard

\* The caller calls decodeErrorData a second time, with the same indent and
\* another spelling of the same bytes.
CallInOtherCase ==
    /\ pc \in {"returned", "thrown"}
    /\ previousCalls = {}
    /\ previousCalls' = {FinishedCall}
    /\ \E data \in Spellings(hexlifyText(errorData).value) \ {errorData} :
           CallDecodeErrorData(data, textIndent)
    /\ UNCHANGED cardVars
    /\ UNCHANGED <<rpcUrl, txHash, mainPc, txResponse, callLog, output>>

CaseNext ==
    \/ GetAllFullyQualifiedNames
    \/ ReadArtifact
    \/ GetContractFactory
    \/ ForEachEntity
    \/ ComposeReport
    \/ CallInOtherCase

SpecCase == CaseInit /\ [][CaseNext]_vars

(***************************************************************************)
(* A call of decodeErrorData whose awaited calls all return                *)
(***************************************************************************)
LiveInit ==
    /\ errorData \in MainErrorData
    /\ textIndent \in TextIndents
    /\ artifactFiles \in ArtifactLists
    /\ pc = "getAllFullyQualifiedNames"
    /\ contractFullNames = <<>>
    /\ nameIndex = 1
    /\ artifact = NoArtifact
    /\ deployableContractEntities = <<>>
    /\ entityIndex = 1
    /\ decodedCustomErrorStrings = <<>>
    /\ result = <<>>
    /\ factoryRequests = <<>>
    /\ parseAttempts = <<>>
    /\ enumerations = 0
    /\ NoCaller
    /\ NoCard

\* Every awaited call (the names, an artifact, a factory) returns at some time:
\* weak fairness of the three actions that are the returns of these calls.  The
\* forEach callback and the composition of the report are synchronous code,
\* which the engine runs to its end once the awaited promise is resolved: weak
\* fairness of these two steps, written out with pc = "forEach" for the
\* condition that one of them is enabled (the callback when an entity is left,
\* the composition when none is).
SpecLive ==
    /\ LiveInit
    /\ [][Next]_vars
    /\ WF_vars(GetAllFullyQualifiedNames)
    /\ WF_vars(ReadArtifact)
    /\ WF_vars(GetContractFactory)
    /\ ([]<>(pc # "forEach") \/ []<><<ForEachEntity \/ ComposeReport>>_vars)

(***************************************************************************)
(* CardPaymentProcessor (src/unnamed/part_001), Solidity 0.8.16: checked   *)
(* arithmetic, a revert undoes every write of the call.                    *)
(*                                                                         *)
(* A function of the contract is an operator from the storage before the   *)
(* call and the arguments to Reverted(error), or to Done(storage after the *)
(* call, events).  The token and the cashback distributor are contracts    *)
(* outside this one: a token transfer succeeds or reverts (tokenOk), the   *)
(* cashback is in its state after initialize (not enabled, no distributor).*)
(***************************************************************************)
MaxAmount == 2

MaxRevocations == 1

\* type(uint8).max, the revocation limit after initialize
MaxUint8 == 255

ZeroAddress == "0x0000000000000000000000000000000000000000"
Deployer == "deployer"
Executor == "executor"
Customers == {"alice", "bob"}
CashOutAccount == "cashOut"
Accounts == {Deployer, Executor, CashOutAccount} \cup Customers

OWNER_ROLE == "OWNER_ROLE"
EXECUTOR_ROLE == "EXECUTOR_ROLE"
Roles == {OWNER_ROLE, EXECUTOR_ROLE}

ZeroAuthorizationId == "0x00000000000000000000000000000000"
AuthorizationIds == {"authorization1", "authorization2"}

ZeroParentTransactionHash == "0x00"
ParentTxHashes == {"parentTx"}

Amounts == 0..MaxAmount

\* The limits setRevocationLimit is called with.
RevocationLimits == 0..MaxRevocations \cup {MaxUint8}

\* bytes16[] arguments: every array of up to two ids, the zero id included.
AuthorizationIdArrays ==
    LET ids == AuthorizationIds \cup {ZeroAuthorizationId}
    IN  {<<>>} \cup {<<a>> : a \in ids} \cup {<<a, b>> : a \in ids, b \in ids}

\* The default value of a Payment in the mapping.
NoPayment ==
    [account |-> ZeroAddress, amount |-> 0, status |-> "Nonexistent",
     revocationCounter |-> 0, compensationAmount |-> 0, refundAmount |-> 0,
     cashbackRate |-> 0]

\* The storage of the contract as one value.
Storage ==
    [payments |-> payments,
     unclearedBalances |-> unclearedBalances,
     clearedBalances |-> clearedBalances,
     totalUnclearedBalance |-> totalUnclearedBalance,
     totalClearedBalance |-> totalClearedBalance,
     paymentRevocationFlags |-> paymentRevocationFlags,
     paymentReversionFlags |-> paymentReversionFlags,
     revocationLimit |-> revocationLimit,
     cashOutAccount |-> cashOutAccount,
     roles |-> roles,
     paused |-> paused]

Reverted(error) == [reverted |-> TRUE, error |-> error]

Done(storage, events) == [reverted |-> FALSE, storage |-> storage, events |-> events]

\* The result of an internal function that returns an amount.
DoneWith(storage, events, amount) ==
    [reverted |-> FALSE, storage |-> storage, events |-> events, amount |-> amount]

\* A custom error with one argument, and the errors without.
ErrorOf(name, argument) == [name |-> name, argument |-> argument]
Error(name) == [name |-> name]

\* Lines 1581-1583
hasRole(st, role, account) == account \in st.roles[role]

\* Lines 1604-1617: the revert of onlyRole
MissingRole(role, account) == [name |-> "AccessControl: account is missing role", role |-> role, account |-> account]

\* Lines 3537-3539
calculateCashback(amount, cashbackRateInPermil) == (amount * cashbackRateInPermil) \div 1000

\* Lines 3473-3499 with _cashbackEnabled false: (sentAmount, appliedCashbackRate) = (0, 0)
sendCashbackInternal(st, account, paymentAmount, authorizationId) ==
    [sentAmount |-> 0, appliedCashbackRate |-> 0]

\* Lines 3513-3528 with no cashback nonce: sentAmount = 0
increaseCashbackInternal(st, authorizationId, amount) == 0

\* A variant without the test of the revocation counter.
makePaymentInternalUnlimited(st, sender, account, amount, authorizationId, tokenOk) ==
    LET payment == st.payments[authorizationId]
        cashback == sendCashbackInternal(st, account, amount, authorizationId)
    IN  IF authorizationId = ZeroAuthorizationId THEN Reverted(Error("ZeroAuthorizationId"))
        ELSE IF payment.status \notin {"Nonexistent", "Revoked"}
        THEN Reverted(Error("PaymentAlreadyExists"))
        ELSE IF ~tokenOk THEN Reverted(Error("ERC20: transfer failed"))
        ELSE Done([st EXCEPT
                      !.payments[authorizationId] =
                          [payment EXCEPT !.account = account,
                                          !.amount = amount,
                                          !.status = "Uncleared",
                                          !.compensationAmount = cashback.sentAmount,
                                          !.cashbackRate = cashback.appliedCashbackRate],
                      !.unclearedBalances[account] = @ + amount,
                      !.totalUnclearedBalance = @ + amount],
                  << [name |-> "MakePayment", authorizationId |-> authorizationId] >>)

\* Lines 3245-3289
makePaymentInternal(st, sender, account, amount, authorizationId, tokenOk) ==
    LET payment == st.payments[authorizationId]
        cashback == sendCashbackInternal(st, account, amount, authorizationId)
    IN  IF authorizationId = ZeroAuthorizationId THEN Reverted(Error("ZeroAuthorizationId"))
        ELSE IF payment.status \notin {"Nonexistent", "Revoked"}
        THEN Reverted(Error("PaymentAlreadyExists"))
        ELSE IF payment.revocationCounter # 0
                /\ payment.revocationCounter >= st.revocationLimit
        THEN Reverted(ErrorOf("RevocationLimitReached", st.revocationLimit))
        ELSE IF ~tokenOk THEN Reverted(Error("ERC20: transfer failed"))
        ELSE Done([st EXCEPT
                      !.payments[authorizationId] =
                          [payment EXCEPT !.account = account,
                                          !.amount = amount,
                                          !.status = "Uncleared",
                                          !.compensationAmount = cashback.sentAmount,
                                          !.cashbackRate = cashback.appliedCashbackRate],
                      !.unclearedBalances[account] = @ + amount,
                      !.totalUnclearedBalance = @ + amount],
                  << [name |-> "MakePayment", authorizationId |-> authorizationId] >>)

\* Lines 2655-2662
makePayment(st, sender, amount, authorizationId, tokenOk) ==
    IF st.paused THEN Reverted(Error("Pausable: paused"))
    ELSE makePaymentInternal(st, sender, sender, amount, authorizationId, tokenOk)

\* Lines 2676-2686
makePaymentFrom(st, sender, account, amount, authorizationId, tokenOk) ==
    IF st.paused THEN Reverted(Error("Pausable: paused"))
    ELSE IF ~hasRole(st, EXECUTOR_ROLE, sender) THEN Reverted(MissingRole(EXECUTOR_ROLE, sender))
    ELSE IF account = ZeroAddress THEN Reverted(Error("ZeroAccount"))
    ELSE makePaymentInternal(st, sender, account, amount, authorizationId, tokenOk)

\* Lines 2699-2759
updatePaymentAmount(st, sender, newAmount, authorizationId, tokenOk) ==
    IF st.paused THEN Reverted(Error("Pausable: paused"))
    ELSE IF ~hasRole(st, EXECUTOR_ROLE, sender) THEN Reverted(MissingRole(EXECUTOR_ROLE, sender))
    ELSE IF authorizationId = ZeroAuthorizationId THEN Reverted(Error("ZeroAuthorizationId"))
    ELSE
    LET payment == st.payments[authorizationId]
        status == payment.status
        account == payment.account
        oldPaymentAmount == payment.amount
        refundAmount == payment.refundAmount
        newCompensationAmount ==
            refundAmount + calculateCashback(newAmount - refundAmount, payment.cashbackRate)
        oldCompensationAmount == payment.compensationAmount
        event == << [name |-> "UpdatePaymentAmount", authorizationId |-> authorizationId] >>
    IN  IF status = "Nonexistent" THEN Reverted(Error("PaymentNotExist"))
        ELSE IF status # "Uncleared" THEN Reverted(ErrorOf("InappropriatePaymentStatus", status))
        ELSE IF refundAmount > newAmount THEN Reverted(Error("InappropriateNewPaymentAmount"))
        ELSE IF newAmount >= oldPaymentAmount
        THEN LET paymentAmountDiff == newAmount - oldPaymentAmount
                 cashbackIncreaseAmount ==
                     increaseCashbackInternal(st, authorizationId,
                                              newCompensationAmount - oldCompensationAmount)
             IN  IF newCompensationAmount < oldCompensationAmount
                 THEN Reverted(ErrorOf("Panic", 17))
                 ELSE IF ~tokenOk THEN Reverted(Error("ERC20: transfer failed"))
                 ELSE Done([st EXCEPT
                               !.payments[authorizationId] =
                                   [payment EXCEPT
                                       !.amount = newAmount,
                                       !.compensationAmount =
                                           oldCompensationAmount + cashbackIncreaseAmount],
                               !.totalUnclearedBalance = @ + paymentAmountDiff,
                               !.unclearedBalances[account] = @ + paymentAmountDiff],
                           event)
        ELSE LET paymentAmountDiff == oldPaymentAmount - newAmount
                 cashbackRevocationAmount == oldCompensationAmount - newCompensationAmount
             IN  IF oldCompensationAmount < newCompensationAmount
                    \/ paymentAmountDiff < cashbackRevocationAmount
                    \/ st.totalUnclearedBalance < paymentAmountDiff
                    \/ st.unclearedBalances[account] < paymentAmountDiff
                 THEN Reverted(ErrorOf("Panic", 17))
                 ELSE IF ~tokenOk THEN Reverted(Error("ERC20: transfer failed"))
                 ELSE Done([st EXCEPT
                               !.payments[authorizationId] =
                                   [payment EXCEPT
                                       !.amount = newAmount,
                                       !.compensationAmount = newCompensationAmount],
                               !.totalUnclearedBalance = @ - paymentAmountDiff,
                               !.unclearedBalances[account] = @ - paymentAmountDiff],
                           event)

\* A variant that moves the payment amount, the refunds included.
clearPaymentInternalOfAmount(st, authorizationId) ==
    LET payment == st.payments[authorizationId]
        status == payment.status
        account == payment.account
        amount == payment.amount
    IN  IF authorizationId = ZeroAuthorizationId THEN Reverted(Error("ZeroAuthorizationId"))
        ELSE IF status = "Nonexistent" THEN Reverted(Error("PaymentNotExist"))
        ELSE IF status = "Cleared" THEN Reverted(Error("PaymentAlreadyCleared"))
        ELSE IF status # "Uncleared" THEN Reverted(ErrorOf("InappropriatePaymentStatus", status))
        ELSE IF st.unclearedBalances[account] < amount THEN Reverted(ErrorOf("Panic", 17))
        ELSE DoneWith([st EXCEPT
                          !.payments[authorizationId].status = "Cleared",
                          !.unclearedBalances[account] = @ - amount,
                          !.clearedBalances[account] = @ + amount],
                      << [name |-> "ClearPayment", authorizationId |-> authorizationId] >>,
                      amount)

\* Lines 3291-3326
clearPaymentInternal(st, authorizationId) ==
    LET payment == st.payments[authorizationId]
        status == payment.status
        account == payment.account
        amount == payment.amount - payment.refundAmount
    IN  IF authorizationId = ZeroAuthorizationId THEN Reverted(Error("ZeroAuthorizationId"))
        ELSE IF status = "Nonexistent" THEN Reverted(Error("PaymentNotExist"))
        ELSE IF status = "Cleared" THEN Reverted(Error("PaymentAlreadyCleared"))
        ELSE IF status # "Uncleared" THEN Reverted(ErrorOf("InappropriatePaymentStatus", status))
        ELSE IF payment.amount < payment.refundAmount
                \/ st.unclearedBalances[account] < amount
        THEN Reverted(ErrorOf("Panic", 17))
        ELSE DoneWith([st EXCEPT
                          !.payments[authorizationId].status = "Cleared",
                          !.unclearedBalances[account] = @ - amount,
                          !.clearedBalances[account] = @ + amount],
                      << [name |-> "ClearPayment", authorizationId |-> authorizationId] >>,
                      amount)

\* Lines 3328-3363
unclearPaymentInternal(st, authorizationId) ==
    LET payment == st.payments[authorizationId]
        status == payment.status
        account == payment.account
        amount == payment.amount - payment.refundAmount
    IN  IF authorizationId = ZeroAuthorizationId THEN Reverted(Error("ZeroAuthorizationId"))
        ELSE IF status = "Nonexistent" THEN Reverted(Error("PaymentNotExist"))
        ELSE IF status = "Uncleared" THEN Reverted(Error("PaymentAlreadyUncleared"))
        ELSE IF status # "Cleared" THEN Reverted(ErrorOf("InappropriatePaymentStatus", status))
        ELSE IF payment.amount < payment.refundAmount
                \/ st.clearedBalances[account] < amount
        THEN Reverted(ErrorOf("Panic", 17))
        ELSE DoneWith([st EXCEPT
                          !.payments[authorizationId].status = "Uncleared",
                          !.clearedBalances[account] = @ - amount,
                          !.unclearedBalances[account] = @ + amount],
                      << [name |-> "UnclearPayment", authorizationId |-> authorizationId] >>,
                      amount)

\* A variant that confirms a payment whatever its status.
confirmPaymentInternalOfAny(st, authorizationId) ==
    LET payment == st.payments[authorizationId]
        account == payment.account
        amount == payment.amount - payment.refundAmount
    IN  IF authorizationId = ZeroAuthorizationId THEN Reverted(Error("ZeroAuthorizationId"))
        ELSE IF payment.status = "Nonexistent" THEN Reverted(Error("PaymentNotExist"))
        ELSE IF payment.amount < payment.refundAmount
                \/ st.clearedBalances[account] < amount
        THEN Reverted(ErrorOf("Panic", 17))
        ELSE DoneWith([st EXCEPT
                          !.payments[authorizationId].status = "Confirmed",
                          !.clearedBalances[account] = @ - amount],
                      << [name |-> "ConfirmPayment", authorizationId |-> authorizationId] >>,
                      amount)

\* Lines 3365-3387
confirmPaymentInternal(st, authorizationId) ==
    LET payment == st.payments[authorizationId]
        status == payment.status
        account == payment.account
        amount == payment.amount - payment.refundAmount
    IN  IF authorizationId = ZeroAuthorizationId THEN Reverted(Error("ZeroAuthorizationId"))
        ELSE IF status = "Nonexistent" THEN Reverted(Error("PaymentNotExist"))
        ELSE IF status # "Cleared" THEN Reverted(ErrorOf("InappropriatePaymentStatus", status))
        ELSE IF payment.amount < payment.refundAmount
                \/ st.clearedBalances[account] < amount
        THEN Reverted(ErrorOf("Panic", 17))
        ELSE DoneWith([st EXCEPT
                          !.payments[authorizationId].status = "Confirmed",
                          !.clearedBalances[account] = @ - amount],
                      << [name |-> "ConfirmPayment", authorizationId |-> authorizationId] >>,
                      amount)

\* The internal function a batch function calls for each id.
paymentInternal(function, st, authorizationId) ==
    CASE function = "clear" -> clearPaymentInternal(st, authorizationId)
      [] function = "unclear" -> unclearPaymentInternal(st, authorizationId)
      [] function = "confirm" -> confirmPaymentInternal(st, authorizationId)

RECURSIVE forEachAuthorizationId(_, _, _)
\* Lines 2794-2798, 2837-2841, 2938-2941: the loop over the ids, which adds up
\* the amounts; a revert of one call reverts the whole.
forEachAuthorizationId(function, st, authorizationIds) ==
    IF Len(authorizationIds) = 0 THEN DoneWith(st, <<>>, 0)
    ELSE LET first == paymentInternal(function, st, Head(authorizationIds))
             others == forEachAuthorizationId(function, first.storage, Tail(authorizationIds))
         IN  IF first.reverted THEN first
             ELSE IF others.reverted THEN others
             ELSE DoneWith(others.storage, first.events \o others.events,
                           first.amount + others.amount)

\* Lines 2774-2775 and 2800-2801
moveUnclearedToCleared(done) ==
    IF done.reverted THEN done
    ELSE IF done.storage.totalUnclearedBalance < done.amount THEN Reverted(ErrorOf("Panic", 17))
    ELSE Done([done.storage EXCEPT !.totalUnclearedBalance = @ - done.amount,
                                   !.totalClearedBalance = @ + done.amount],
              done.events)

\* Lines 2817-2818 and 2843-2844
moveClearedToUncleared(done) ==
    IF done.reverted THEN done
    ELSE IF done.storage.totalClearedBalance < done.amount THEN Reverted(ErrorOf("Panic", 17))
    ELSE Done([done.storage EXCEPT !.totalClearedBalance = @ - done.amount,
                                   !.totalUnclearedBalance = @ + done.amount],
              done.events)

\* Lines 3530-3535 and 2914-2915, 2943-2944: the cash-out of the confirmed amount
cashOut(done, tokenOk) ==
    IF done.reverted THEN done
    ELSE IF done.storage.totalClearedBalance < done.amount THEN Reverted(ErrorOf("Panic", 17))
    ELSE IF done.storage.cashOutAccount = ZeroAddress THEN Reverted(Error("ZeroCashOutAccount"))
    ELSE IF ~tokenOk THEN Reverted(Error("ERC20: transfer failed"))
    ELSE Done([done.storage EXCEPT !.totalClearedBalance = @ - done.amount], done.events)

\* whenNotPaused onlyRole(EXECUTOR_ROLE), then the body
asExecutor(st, sender, body) ==
    IF st.paused THEN Reverted(Error("Pausable: paused"))
    ELSE IF ~hasRole(st, EXECUTOR_ROLE, sender) THEN Reverted(MissingRole(EXECUTOR_ROLE, sender))
    ELSE body

\* Lines 2771-2776
clearPayment(st, sender, authorizationId) ==
    asExecutor(st, sender, moveUnclearedToCleared(clearPaymentInternal(st, authorizationId)))

\* Lines 2789-2802
clearPayments(st, sender, authorizationIds) ==
    asExecutor(st, sender,
        IF Len(authorizationIds) = 0 THEN Reverted(Error("EmptyAuthorizationIdsArray"))
        ELSE moveUnclearedToCleared(forEachAuthorizationId("clear", st, authorizationIds)))

\* Lines 2814-2819
unclearPayment(st, sender, authorizationId) ==
    asExecutor(st, sender, moveClearedToUncleared(unclearPaymentInternal(st, authorizationId)))

\* Lines 2832-2845
unclearPayments(st, sender, authorizationIds) ==
    asExecutor(st, sender,
        IF Len(authorizationIds) = 0 THEN Reverted(Error("EmptyAuthorizationIdsArray"))
        ELSE moveClearedToUncleared(forEachAuthorizationId("unclear", st, authorizationIds)))

\* Lines 2908-2916
confirmPayment(st, sender, authorizationId, tokenOk) ==
    asExecutor(st, sender, cashOut(confirmPaymentInternal(st, authorizationId), tokenOk))

\* Lines 2929-2945
confirmPayments(st, sender, authorizationIds, tokenOk) ==
    asExecutor(st, sender,
        IF Len(authorizationIds) = 0 THEN Reverted(Error("EmptyAuthorizationIdsArray"))
        ELSE cashOut(forEachAuthorizationId("confirm", st, authorizationIds), tokenOk))

\* Lines 3396-3471
cancelPaymentInternal(st, authorizationId, parentTxHash, targetStatus, tokenOk) ==
    LET payment == st.payments[authorizationId]
        status == payment.status
        account == payment.account
        sentAmount == payment.amount - payment.compensationAmount
        remainingPaymentAmount == payment.amount - payment.refundAmount
        revokedCashbackAmount == remainingPaymentAmount - sentAmount
        released ==
            IF status = "Uncleared"
            THEN [st EXCEPT !.totalUnclearedBalance = @ - remainingPaymentAmount,
                            !.unclearedBalances[account] = @ - remainingPaymentAmount]
            ELSE [st EXCEPT !.totalClearedBalance = @ - remainingPaymentAmount,
                            !.clearedBalances[account] = @ - remainingPaymentAmount]
        underflow ==
            \/ payment.amount < payment.compensationAmount
            \/ payment.amount < payment.refundAmount
            \/ remainingPaymentAmount < sentAmount
        balanceUnderflow ==
            \/ status = "Uncleared" /\ st.totalUnclearedBalance < remainingPaymentAmount
            \/ status = "Uncleared" /\ st.unclearedBalances[account] < remainingPaymentAmount
            \/ status = "Cleared" /\ st.totalClearedBalance < remainingPaymentAmount
            \/ status = "Cleared" /\ st.clearedBalances[account] < remainingPaymentAmount
    IN  IF authorizationId = ZeroAuthorizationId THEN Reverted(Error("ZeroAuthorizationId"))
        ELSE IF parentTxHash = ZeroParentTransactionHash
        THEN Reverted(Error("ZeroParentTransactionHash"))
        ELSE IF status = "Nonexistent" THEN Reverted(Error("PaymentNotExist"))
        ELSE IF underflow \/ balanceUnderflow THEN Reverted(ErrorOf("Panic", 17))
        ELSE IF status \notin {"Uncleared", "Cleared"}
        THEN Reverted(ErrorOf("InappropriatePaymentStatus", status))
        ELSE IF targetStatus = "Revoked"
        THEN IF payment.revocationCounter + 1 > MaxUint8 THEN Reverted(ErrorOf("Panic", 17))
             ELSE IF ~tokenOk THEN Reverted(Error("ERC20: transfer failed"))
             ELSE Done([released EXCEPT
                           !.payments[authorizationId] =
                               [payment EXCEPT !.compensationAmount = 0,
                                               !.refundAmount = 0,
                                               !.status = "Revoked",
                                               !.revocationCounter = @ + 1],
                           !.paymentRevocationFlags = @ \cup {parentTxHash}],
                       << [name |-> "RevokePayment", authorizationId |-> authorizationId] >>)
        ELSE IF ~tokenOk THEN Reverted(Error("ERC20: transfer failed"))
        ELSE Done([released EXCEPT
                      !.payments[authorizationId] =
                          [payment EXCEPT !.compensationAmount = 0,
                                          !.refundAmount = 0,
                                          !.status = "Reversed"],
                      !.paymentReversionFlags = @ \cup {parentTxHash}],
                  << [name |-> "ReversePayment", authorizationId |-> authorizationId] >>)

\* Lines 2857-2868
reversePayment(st, sender, authorizationId, parentTxHash, tokenOk) ==
    asExecutor(st, sender,
        cancelPaymentInternal(st, authorizationId, parentTxHash, "Reversed", tokenOk))

\* Lines 2881-2896
revokePayment(st, sender, authorizationId, parentTxHash, tokenOk) ==
    asExecutor(st, sender,
        IF st.revocationLimit = 0 THEN Reverted(ErrorOf("RevocationLimitReached", 0))
        ELSE cancelPaymentInternal(st, authorizationId, parentTxHash, "Revoked", tokenOk))

\* Lines 2956-3014
refundPayment(st, sender, amount, authorizationId, tokenOk) ==
    asExecutor(st, sender,
        IF authorizationId = ZeroAuthorizationId THEN Reverted(Error("ZeroAuthorizationId"))
        ELSE
        LET payment == st.payments[authorizationId]
            status == payment.status
            account == payment.account
            paymentAmount == payment.amount
            newRefundAmount == payment.refundAmount + amount
            newCompensationAmount ==
                newRefundAmount
                + calculateCashback(paymentAmount - newRefundAmount, payment.cashbackRate)
            sentAmount == newCompensationAmount - payment.compensationAmount
            refunded ==
                [st EXCEPT !.payments[authorizationId] =
                               [payment EXCEPT !.refundAmount = newRefundAmount,
                                               !.compensationAmount = newCompensationAmount]]
            event == << [name |-> "RefundPayment", authorizationId |-> authorizationId] >>
        IN  IF status = "Nonexistent" THEN Reverted(Error("PaymentNotExist"))
            ELSE IF status \notin {"Uncleared", "Cleared", "Confirmed"}
            THEN Reverted(ErrorOf("InappropriatePaymentStatus", status))
            ELSE IF newRefundAmount > paymentAmount
            THEN Reverted(Error("InappropriateRefundAmount"))
            ELSE IF newCompensationAmount < payment.compensationAmount \/ amount < sentAmount
            THEN Reverted(ErrorOf("Panic", 17))
            ELSE IF status = "Uncleared"
            THEN IF st.totalUnclearedBalance < amount \/ st.unclearedBalances[account] < amount
                 THEN Reverted(ErrorOf("Panic", 17))
                 ELSE IF ~tokenOk THEN Reverted(Error("ERC20: transfer failed"))
                 ELSE Done([refunded EXCEPT !.totalUnclearedBalance = @ - amount,
                                            !.unclearedBalances[account] = @ - amount],
                           event)
            ELSE IF status = "Cleared"
            THEN IF st.totalClearedBalance < amount \/ st.clearedBalances[account] < amount
                 THEN Reverted(ErrorOf("Panic", 17))
                 ELSE IF ~tokenOk THEN Reverted(Error("ERC20: transfer failed"))
                 ELSE Done([refunded EXCEPT !.totalClearedBalance = @ - amount,
                                            !.clearedBalances[account] = @ - amount],
                           event)
            ELSE IF st.cashOutAccount = ZeroAddress THEN Reverted(Error("ZeroCashOutAccount"))
            ELSE IF ~tokenOk THEN Reverted(Error("ERC20: transfer failed"))
            ELSE Done(refunded, event))

\* Lines 3028-3036
setRevocationLimit(st, sender, newLimit) ==
    IF ~hasRole(st, OWNER_ROLE, sender) THEN Reverted(MissingRole(OWNER_ROLE, sender))
    ELSE IF st.revocationLimit = newLimit THEN Done(st, <<>>)
    ELSE Done([st EXCEPT !.revocationLimit = newLimit],
              << [name |-> "SetRevocationLimit",
                  oldLimit |-> st.revocationLimit, newLimit |-> newLimit] >>)

\* Lines 2638-2639 and 1625-1627: the admin role of both roles
getRoleAdmin(role) == OWNER_ROLE

\* Lines 1641-1643 and 1724-1729
grantRole(st, sender, role, account) ==
    IF ~hasRole(st, getRoleAdmin(role), sender)
    THEN Reverted(MissingRole(getRoleAdmin(role), sender))
    ELSE Done([st EXCEPT !.roles[role] = @ \cup {account}],
              IF hasRole(st, role, account) THEN <<>>
              ELSE << [name |-> "RoleGranted", role |-> role, account |-> account] >>)

\* Lines 1656-1658 and 1738-1743
revokeRole(st, sender, role, account) ==
    IF ~hasRole(st, getRoleAdmin(role), sender)
    THEN Reverted(MissingRole(getRoleAdmin(role), sender))
    ELSE Done([st EXCEPT !.roles[role] = @ \ {account}],
              IF ~hasRole(st, role, account) THEN <<>>
              ELSE << [name |-> "RoleRevoked", role |-> role, account |-> account] >>)

(***************************************************************************)
(* The contract after initialize, called by its owner, an executor and     *)
(* the customers                                                           *)
(***************************************************************************)
\* No script runs next to the contract.
NoScript ==
    /\ errorData = <<>>
    /\ textIndent = <<>>
    /\ artifactFiles = <<>>
    /\ pc = "idle"
    /\ contractFullNames = <<>>
    /\ nameIndex = 1
    /\ artifact = NoArtifact
    /\ deployableContractEntities = <<>>
    /\ entityIndex = 1
    /\ decodedCustomErrorStrings = <<>>
    /\ result = <<>>
    /\ factoryRequests = <<>>
    /\ parseAttempts = <<>>
    /\ enumerations = 0
    /\ NoCaller

\* Lines 2614-2642: initialize, called by the deployer.  The owner has then
\* granted the executor role and may have set the cash-out account (lines
\* 3233-3243).
CardInit ==
    /\ payments = [id \in AuthorizationIds \cup {ZeroAuthorizationId} |-> NoPayment]
    /\ unclearedBalances = [account \in Accounts |-> 0]
    /\ clearedBalances = [account \in Accounts |-> 0]
    /\ totalUnclearedBalance = 0
    /\ totalClearedBalance = 0
    /\ paymentRevocationFlags = {}
    /\ paymentReversionFlags = {}
    /\ revocationLimit = MaxUint8
    /\ cashOutAccount \in {ZeroAddress, CashOutAccount}
    /\ roles = [role \in Roles |-> IF role = OWNER_ROLE THEN {Deployer} ELSE {Executor}]
    /\ paused = FALSE
    /\ NoScript

\* The storage after a call that did not revert.
Commit(storage) ==
    /\ payments' = storage.payments
    /\ unclearedBalances' = storage.unclearedBalances
    /\ clearedBalances' = storage.clearedBalances
    /\ totalUnclearedBalance' = storage.totalUnclearedBalance
    /\ totalClearedBalance' = storage.totalClearedBalance
    /\ paymentRevocationFlags' = storage.paymentRevocationFlags
    /\ paymentReversionFlags' = storage.paymentReversionFlags
    /\ revocationLimit' = storage.revocationLimit
    /\ cashOutAccount' = storage.cashOutAccount
    /\ roles' = storage.roles
    /\ paused' = storage.paused

\* A transaction: its writes are kept unless it reverted.
Transaction(outcome) ==
    /\ IF outcome.reverted THEN UNCHANGED cardVars ELSE Commit(outcome.storage)
    /\ UNCHANGED scriptVars

MakePayment ==
    \E sender \in Customers, amount \in Amounts, id \in AuthorizationIds, tokenOk \in BOOLEAN :
        /\ Transaction(makePayment(Storage, sender, amount, id, tokenOk))

MakePaymentFrom ==
    \E sender \in {Executor}, account \in Customers, amount \in Amounts,
       id \in AuthorizationIds, tokenOk \in BOOLEAN :
        /\ Transaction(makePaymentFrom(Storage, sender, account, amount, id, tokenOk))

UpdatePaymentAmount ==
    \E newAmount \in Amounts, id \in AuthorizationIds, tokenOk \in BOOLEAN :
        /\ Transaction(updatePaymentAmount(Storage, Executor, newAmount, id, tokenOk))

ClearPayment ==
    \E id \in AuthorizationIds :
        /\ Transaction(clearPayment(Storage, Executor, id))

ClearPayments ==
    \E ids \in AuthorizationIdArrays :
        /\ Transaction(clearPayments(Storage, Executor, ids))

UnclearPayment ==
    \E id \in AuthorizationIds :
        /\ Transaction(unclearPayment(Storage, Executor, id))

UnclearPayments ==
    \E ids \in AuthorizationIdArrays :
        /\ Transaction(unclearPayments(Storage, Executor, ids))

ConfirmPayment ==
    \E id \in AuthorizationIds, tokenOk \in BOOLEAN :
        /\ Transaction(confirmPayment(Storage, Executor, id, tokenOk))

ConfirmPayments ==
    \E ids \in AuthorizationIdArrays, tokenOk \in BOOLEAN :
        /\ Transaction(confirmPayments(Storage, Executor, ids, tokenOk))

ReversePayment ==
    \E id \in AuthorizationIds, parentTxHash \in ParentTxHashes, tokenOk \in BOOLEAN :
        /\ Transaction(reversePayment(Storage, Executor, id, parentTxHash, tokenOk))

\* The revocations of one payment are counted up to MaxRevocations.
RevokePayment ==
    \E id \in AuthorizationIds, parentTxHash \in ParentTxHashes, tokenOk \in BOOLEAN :
        /\ payments[id].revocationCounter < MaxRevocations
        /\ Transaction(revokePayment(Storage, Executor, id, parentTxHash, tokenOk))

RefundPayment ==
    \E amount \in Amounts, id \in AuthorizationIds, tokenOk \in BOOLEAN :
        /\ Transaction(refundPayment(Storage, Executor, amount, id, tokenOk))

SetRevocationLimit ==
    \E sender \in Accounts, newLimit \in RevocationLimits :
        /\ Transaction(setRevocationLimit(Storage, sender, newLimit))

CardNext ==
    \/ MakePayment
    \/ MakePaymentFrom
    \/ UpdatePaymentAmount
    \/ ClearPayment
    \/ ClearPayments
    \/ UnclearPayment
    \/ UnclearPayments
    \/ ConfirmPayment
    \/ ConfirmPayments
    \/ ReversePayment
    \/ RevokePayment
    \/ RefundPayment
    \/ SetRevocationLimit

SpecCard == CardInit /\ [][CardNext]_vars

(***************************************************************************)
(* The roles of the contract and the revocation limit                      *)
(***************************************************************************)
GrantRole ==
    \E sender \in Accounts, role \in Roles, account \in Accounts :
        /\ Transaction(grantRole(Storage, sender, role, account))

RevokeRole ==
    \E sender \in Accounts, role \in Roles, account \in Accounts :
        /\ Transaction(revokeRole(Storage, sender, role, account))

AccessNext ==
    \/ GrantRole
    \/ RevokeRole
    \/ SetRevocationLimit

SpecAccess == CardInit /\ [][AccessNext]_vars

(***************************************************************************)
(* Vocabulary of the properties: the error data as bytes, the lines of a   *)
(* report.                                                                 *)
(***************************************************************************)
RevertSelectorBytes == <<8, 195, 121, 160>>

PanicSelectorBytes == <<78, 72, 123, 113>>

ErrorBytes == arrayify(errorData).value

HasSelector(selector) == Len(ErrorBytes) >= 4 /\ SubSeq(ErrorBytes, 1, 4) = selector

PayloadBytes == SubSeq(ErrorBytes, 5, Len(ErrorBytes))

IsStandardData == HasSelector(RevertSelectorBytes) \/ HasSelector(PanicSelectorBytes)

Finished == pc \in {"returned", "thrown"}

NewLinesOf(s) == {i \in 1..Len(s) : s[i] = "\n"}

FirstLine(s) ==
    IF NewLinesOf(s) = {} THEN s
    ELSE SubSeq(s, 1, (CHOOSE i \in NewLinesOf(s) : \A j \in NewLinesOf(s) : i <= j) - 1)

RECURSIVE Lines(_)
Lines(s) ==
    IF NewLinesOf(s) = {} THEN <<s>>
    ELSE <<FirstLine(s)>> \o Lines(SubSeq(s, Len(FirstLine(s)) + 2, Len(s)))

Contains(s, p) == \E i \in 1..(Len(s) - Len(p) + 1) : SubSeq(s, i, i + Len(p) - 1) = p

AlsoHeadText == <<" ","A","l","s","o"," ","i","t"," ","c","a","n"," ","b","e"," ","t","h","e"," ","f","o","l","l","o","w","i","n","g"," ","c","u","s","t","o","m"," ","e","r","r","o","r","(","s",")",":">>

(***************************************************************************)
(* C1                                                                      *)
(***************************************************************************)
MessageLine(s) == textIndent \o <<"R","e","v","e","r","t","e","d"," ","w","i","t","h"," ","t","h","e"," ","m","e","s","s","a","g","e",":"," ","\"">> \o s \o <<"\"",".">>

IsRevertOf(s) == HasSelector(RevertSelectorBytes) /\ PayloadBytes = encodeString(s)

\* C1 as stated: for error data made of the selector 0x08c379a0 and the ABI
\* encoding of a string s, the call returns a report whose first line is exactly
\* indent + 'Reverted with the message: "s".'.
C1_FirstLineIsMessageLine ==
    \A s \in Messages :
        (Finished /\ IsRevertOf(s)) =>
            (pc = "returned" /\ FirstLine(result) = MessageLine(s))

\* C1 amended: for error data made of the selector 0x08c379a0 and the ABI encoding
\* of a string s, the call returns a report that starts with
\* indent + 'Reverted with the message: "s".'; that is the whole report when no
\* candidate decodes the bytes, and otherwise the first line goes on with
\* ' Also it can be the following custom error(s):'.
C1_ReportStartsWithMessageLine ==
    \A s \in Messages :
        (Finished /\ IsRevertOf(s)) =>
            /\ pc = "returned"
            /\ startsWith(result, MessageLine(s))
            /\ IF decodedCustomErrorStrings = <<>>
               THEN result = MessageLine(s)
               ELSE FirstLine(result) = MessageLine(s) \o AlsoHeadText

C1_Witness ==
    /\ pc = "returned"
    /\ IsRevertOf(<<"i","n","s","u","f","f","i","c","i","e","n","t"," ","f","u","n","d","s">>)
    /\ decodedCustomErrorStrings # <<>>
    /\ startsWith(result, textIndent \o <<"R","e","v","e","r","t","e","d"," ","w","i","t","h"," ","t","h","e"," ","m","e","s","s","a","g","e",":"," ","\"","i","n","s","u","f","f","i","c","i","e","n","t"," ","f","u","n","d","s","\"",".">>)

(***************************************************************************)
(* C2                                                                      *)
(***************************************************************************)
\* The reasons of the table of the specification, section 4.2.
SpecPanicReason(code) ==
    CASE code = 1  -> <<"A","s","s","e","r","t","i","o","n"," ","e","r","r","o","r">>
      [] code = 17 -> <<"A","r","i","t","h","m","e","t","i","c"," ","o","p","e","r","a","t","i","o","n"," ","u","n","d","e","r","f","l","o","w","e","d"," ","o","r"," ","o","v","e","r","f","l","o","w","e","d"," ","o","u","t","s","i","d","e"," ","o","f"," ","a","n"," ","u","n","c","h","e","c","k","e","d"," ","b","l","o","c","k">>
      [] code = 18 -> <<"D","i","v","i","s","i","o","n"," ","o","r"," ","m","o","d","u","l","o"," ","d","i","v","i","s","i","o","n"," ","b","y"," ","z","e","r","o">>
      [] code = 33 -> <<"T","r","i","e","d"," ","t","o"," ","c","o","n","v","e","r","t"," ","a"," ","v","a","l","u","e"," ","i","n","t","o"," ","a","n"," ","e","n","u","m",","," ","b","u","t"," ","t","h","e"," ","v","a","l","u","e"," ","w","a","s"," ","t","o","o"," ","b","i","g"," ","o","r"," ","n","e","g","a","t","i","v","e">>
      [] code = 34 -> <<"I","n","c","o","r","r","e","c","t","l","y"," ","e","n","c","o","d","e","d"," ","s","t","o","r","a","g","e"," ","b","y","t","e"," ","a","r","r","a","y">>
      [] code = 49 -> <<".","p","o","p","(",")"," ","w","a","s"," ","c","a","l","l","e","d"," ","o","n"," ","a","n"," ","e","m","p","t","y"," ","a","r","r","a","y">>
      [] code = 50 -> <<"A","r","r","a","y"," ","a","c","c","e","s","s","e","d"," ","a","t"," ","a","n"," ","o","u","t","-","o","f","-","b","o","u","n","d","s"," ","o","r"," ","n","e","g","a","t","i","v","e"," ","i","n","d","e","x">>
      [] code = 65 -> <<"T","o","o"," ","m","u","c","h"," ","m","e","m","o","r","y"," ","w","a","s"," ","a","l","l","o","c","a","t","e","d",","," ","o","r"," ","a","n"," ","a","r","r","a","y"," ","w","a","s"," ","c","r","e","a","t","e","d"," ","t","h","a","t"," ","i","s"," ","t","o","o"," ","l","a","r","g","e">>
      [] code = 81 -> <<"C","a","l","l","e","d"," ","a"," ","z","e","r","o","-","i","n","i","t","i","a","l","i","z","e","d"," ","v","a","r","i","a","b","l","e"," ","o","f"," ","i","n","t","e","r","n","a","l"," ","f","u","n","c","t","i","o","n"," ","t","y","p","e">>
      [] OTHER -> <<"?","?","?">>

IsPanicOf(word) == HasSelector(PanicSelectorBytes) /\ PayloadBytes = word

\* The code a word denotes, for the reason table: the words of the model above
\* 2^24 are no table codes.
CodeOf(word) == IF IsZero(SubSeq(word, 1, 29)) THEN word[30] * 65536 + word[31] * 256 + word[32] ELSE 16777216

PanicLine(word) ==
    textIndent \o <<"P","a","n","i","c","k","e","d"," ","w","i","t","h"," ","t","h","e"," ","c","o","d","e",":"," ","\"">> \o <<"0", "x">>
    \o HexOfBytes(IF IsZero(word) THEN <<0>> ELSE StripZeros(word))
    \o <<"\"","(">> \o SpecPanicReason(CodeOf(word)) \o <<")",".">>

\* C2 as stated: for error data made of the selector 0x4e487b71 and the ABI
\* encoding of an unsigned integer c, the call returns a report whose first line
\* is exactly indent + 'Panicked with the code: "<hex of c>"(<panicReason(c)>).'.
C2_FirstLineIsPanicLine ==
    \A w \in PanicCodeWords :
        (Finished /\ IsPanicOf(w)) =>
            (pc = "returned" /\ FirstLine(result) = PanicLine(w))

(***************************************************************************)
(* C3                                                                      *)
(***************************************************************************)
\* C3: panicErrorCodeToReason returns the reason of the specification's table for
\* each of the nine table codes, the nine reasons differ from each other, and it
\* returns "???" for every other code: a returned report of panic data with code c
\* carries that reason between '"(' and ').' after the code.
C3_PanicReasonTable ==
    /\ \A w \in PanicCodeWords :
          (pc = "returned" /\ IsPanicOf(w)) =>
              /\ startsWith(result, PanicLine(w))
              /\ (CodeOf(w) \notin TablePanicCodes =>
                     startsWith(result, textIndent \o <<"P","a","n","i","c","k","e","d"," ","w","i","t","h"," ","t","h","e"," ","c","o","d","e",":"," ","\"">>
                                        \o toHexString(w) \o <<"\"","(","?","?","?",")",".">>))
    /\ \A c, d \in TablePanicCodes :
          c # d => /\ panicErrorCodeToReason(c) # panicErrorCodeToReason(d)
                   /\ panicErrorCodeToReason(c) # <<"?","?","?">>

C3_Witness ==
    /\ pc = "returned"
    /\ IsPanicOf(Word(153))
    /\ result = textIndent \o <<"P","a","n","i","c","k","e","d"," ","w","i","t","h"," ","t","h","e"," ","c","o","d","e",":"," ","\"","0","x","9","9","\"","(","?","?","?",")",".">>

(***************************************************************************)
(* C4                                                                      *)
(***************************************************************************)
IsLineOfKind(line, text) == startsWith(line, textIndent \o text)

HasLineOfKind(report, text) ==
    \E i \in 1..Len(Lines(report)) : IsLineOfKind(Lines(report)[i], text)

\* C4: a returned report starts with 'Reverted with the message' exactly when the
\* first four bytes are 0x08c379a0, with 'Panicked with the code' exactly when
\* they are 0x4e487b71, and with 'Reverted with a custom error' exactly when they
\* are neither; no report has a line of the first and a line of the second kind;
\* the call throws only for error data with a standard selector.
C4_ExactlyOneClassification ==
    /\ pc = "returned" =>
          /\ IsLineOfKind(result, <<"R","e","v","e","r","t","e","d"," ","w","i","t","h"," ","t","h","e"," ","m","e","s","s","a","g","e",":"," ">>)
                 <=> HasSelector(RevertSelectorBytes)
          /\ IsLineOfKind(result, <<"P","a","n","i","c","k","e","d"," ","w","i","t","h"," ","t","h","e"," ","c","o","d","e",":"," ">>)
                 <=> HasSelector(PanicSelectorBytes)
          /\ IsLineOfKind(result, <<"R","e","v","e","r","t","e","d"," ","w","i","t","h"," ","a"," ","c","u","s","t","o","m"," ","e","r","r","o","r"," ">>)
                 <=> ~IsStandardData
          /\ ~(/\ HasLineOfKind(result, <<"R","e","v","e","r","t","e","d"," ","w","i","t","h"," ","t","h","e"," ","m","e","s","s","a","g","e">>)
               /\ HasLineOfKind(result, <<"P","a","n","i","c","k","e","d"," ","w","i","t","h"," ","t","h","e"," ","c","o","d","e">>))
    /\ pc = "thrown" => IsStandardData

C4_Witness ==
    /\ pc = "returned"
    /\ HasSelector(PanicSelectorBytes)
    /\ decodedCustomErrorStrings # <<>>
    /\ IsLineOfKind(result, <<"P","a","n","i","c","k","e","d"," ","w","i","t","h"," ","t","h","e"," ","c","o","d","e",":"," ">>)

(***************************************************************************)
(* C5                                                                      *)
(***************************************************************************)
\* Whether a candidate decodes the error data.
Decodes(contractEntity) == parseError(contractEntity.contractFactory.interface, errorData).ok

RECURSIVE MatchesOf(_)
\* One entry for every candidate that decodes the error data, in candidate order.
MatchesOf(entities) ==
    IF Len(entities) = 0 THEN <<>>
    ELSE (IF Decodes(Head(entities))
          THEN <<decodeWithEntity(Head(entities), errorData).value>>
          ELSE <<>>) \o MatchesOf(Tail(entities))

RECURSIVE MatchLines(_)
\* Every match on a line of its own at nextIndent, each after a line break.
MatchLines(matches) ==
    IF Len(matches) = 0 THEN <<>>
    ELSE NewLine \o textIndent \o <<" "," ">> \o Head(matches) \o MatchLines(Tail(matches))

\* The primary line of the standard error data of the model.
StandardPrimaryLines ==
    {MessageLine(s) : s \in {m \in Messages : IsRevertOf(m)}}
    \cup {PanicLine(w) : w \in {v \in PanicCodeWords : IsPanicOf(v)}}

\* C5: the matcher runs on every candidate also when the selector is a standard
\* one: a returned report of standard error data is the primary line alone when
\* no candidate decodes the bytes, and otherwise the primary line, then
\* ' Also it can be the following custom error(s):', then every match on a line
\* of its own at nextIndent.
C5_StandardReportCarriesMatches ==
    (pc = "returned" /\ IsStandardData) =>
        /\ parseAttempts = [i \in 1..Len(deployableContractEntities) |-> i]
        /\ \E primary \in StandardPrimaryLines :
              LET matches == MatchesOf(deployableContractEntities)
              IN  IF Len(matches) = 0
                  THEN result = primary
                  ELSE result = primary \o AlsoHeadText \o MatchLines(matches)

C5_Witness ==
    /\ pc = "returned"
    /\ IsRevertOf(<<"i","n","s","u","f","f","i","c","i","e","n","t"," ","f","u","n","d","s">>)
    /\ Len(deployableContractEntities) = 2
    /\ Len(decodedCustomErrorStrings) = 1
    /\ Len(Lines(result)) = 2
    /\ Lines(result)[2] = textIndent \o <<" "," ","E","r","r","o","r","(","i","n","s","u","f","f","i","c","i","e","n","t"," ","f","u","n","d","s",")"," ","-","-"," ","f","r","o","m"," ","c","o","n","t","r","a","c","t"," ","\"","T","o","k","e","n","\"">>

(***************************************************************************)
(* C6                                                                      *)
(***************************************************************************)
\* The text '<errorName>(<args joined by ", ">)' of the well-formed custom error
\* data of the model.
SpecCallText(data) ==
    CASE data = CustomData(FragZeroAccount, <<>>) -> <<"Z","e","r","o","A","c","c","o","u","n","t","(",")">>
      [] data = CustomData(FragAmountExcess, Word(42)) -> <<"A","m","o","u","n","t","E","x","c","e","s","s","(","4","2",")">>
      [] data = CustomData(FragAmountExcess, WordMax) ->
             <<"A","m","o","u","n","t","E","x","c","e","s","s","(","1","1","5","7","9","2","0","8","9","2","3","7","3","1","6","1","9","5","4","2","3","5","7","0","9","8","5","0","0","8","6","8","7","9","0","7","8","5","3","2","6","9","9","8","4","6","6","5","6","4","0","5","6","4","0","3","9","4","5","7","5","8","4","0","0","7","9","1","3","1","2","9","6","3","9","9","3","5",")">>
      [] data = CustomData(FragHashMismatch, [i \in 1..32 |-> 171]) ->
             <<"H","a","s","h","M","i","s","m","a","t","c","h","(","\"","0","x","a","b","a","b","a","b","a","b","a","b","a","b","a","b","a","b","a","b","a","b","a","b","a","b","a","b","a","b","a","b","a","b","a","b","a","b","a","b","a","b","a","b","a","b","a","b","a","b","a","b","a","b","a","b","a","b","a","b","a","b","a","b","a","b","\"",")">>
      [] data = CustomData(FragOperationFailed,
                           Word(64) \o Word(7) \o encodeStringTail(<<"0","x","d","e","a","d">>)) ->
             <<"O","p","e","r","a","t","i","o","n","F","a","i","l","e","d","(","\"","0","x","d","e","a","d","\"",","," ","7",")">>
      [] data = CustomData(FragOperationFailed,
                           Word(64) \o WordMaxSafe \o encodeStringTail(<<"l","i","m","i","t">>)) ->
             <<"O","p","e","r","a","t","i","o","n","F","a","i","l","e","d","(","l","i","m","i","t",","," ","9","0","0","7","1","9","9","2","5","4","7","4","0","9","9","1",")">>
      [] data = CustomData(FragOperationFailed,
                           Word(64) \o Word(0) \o encodeStringTail(<<"a","0","x">>)) ->
             <<"O","p","e","r","a","t","i","o","n","F","a","i","l","e","d","(","a","0","x",","," ","0",")">>

\* Whether the ABI of a candidate declares an error with the selector of the data.
DeclaresSelector(contractEntity) ==
    \E k \in 1..Len(contractEntity.artifact.errors) :
        contractEntity.artifact.errors[k].sighash = SubSeq(errorData, 1, 10)

RECURSIVE DeclaringNames(_)
\* The contract names of the candidates that declare the selector, in order.
DeclaringNames(entities) ==
    IF Len(entities) = 0 THEN <<>>
    ELSE (IF DeclaresSelector(Head(entities))
          THEN <<Head(entities).artifact.contractName>>
          ELSE <<>>) \o DeclaringNames(Tail(entities))

\* C6: a returned report of error data without a standard selector that some
\* candidate decodes is indent + 'Reverted with a custom error (or several
\* suitable ones):' and then one line per match at nextIndent, each
\* '<errorName>(<args joined by ", ">) -- from contract "<contractName>"', as
\* many lines as matches, and no 'Also it can be' block.
C6_CustomErrorReport ==
    (pc = "returned" /\ ~IsStandardData /\ Len(decodedCustomErrorStrings) > 0) =>
        LET lines == Lines(result)
            names == DeclaringNames(deployableContractEntities)
        IN  /\ errorData \in WellFormedCustomData
            /\ Len(lines) = 1 + Len(decodedCustomErrorStrings)
            /\ Len(names) = Len(decodedCustomErrorStrings)
            /\ lines[1] = textIndent
                          \o <<"R","e","v","e","r","t","e","d"," ","w","i","t","h"," ","a"," ","c","u","s","t","o","m"," ","e","r","r","o","r"," ","(","o","r"," ","s","e","v","e","r","a","l"," ","s","u","i","t","a","b","l","e"," ","o","n","e","s",")",":">>
            /\ \A i \in 1..Len(names) :
                  lines[i + 1] = textIndent \o <<" "," ">> \o SpecCallText(errorData)
                                 \o <<" ","-","-"," ","f","r","o","m"," ","c","o","n","t","r","a","c","t"," ","\"">> \o names[i] \o <<"\"">>
            /\ ~Contains(result, <<"A","l","s","o"," ","i","t"," ","c","a","n"," ","b","e">>)

C6_Witness ==
    /\ pc = "returned"
    /\ errorData = CustomData(FragOperationFailed,
                              Word(64) \o Word(7) \o encodeStringTail(<<"0","x","d","e","a","d">>))
    /\ Len(deployableContractEntities) = 3
    /\ Lines(result) =
           << textIndent \o <<"R","e","v","e","r","t","e","d"," ","w","i","t","h"," ","a"," ","c","u","s","t","o","m"," ","e","r","r","o","r"," ","(","o","r"," ","s","e","v","e","r","a","l"," ","s","u","i","t","a","b","l","e"," ","o","n","e","s",")",":">>,
              textIndent \o <<" "," ","O","p","e","r","a","t","i","o","n","F","a","i","l","e","d","(","\"","0","x","d","e","a","d","\"",","," ","7",")"," ","-","-"," ","f","r","o","m"," ","c","o","n","t","r","a","c","t"," ","\"","C","a","r","d","P","a","y","m","e","n","t","P","r","o","c","e","s","s","o","r","\"">> >>

(***************************************************************************)
(* C7                                                                      *)
(***************************************************************************)
\* C7 as stated: a returned report of error data without a standard selector that
\* no candidate decodes is the two lines indent + "Reverted with a custom error
\* that can't be decoded using the provided contracts." and indent + "Try to add
\* more contract(s) to the candidate set to get decoded error."
C7_FallbackNamesCandidateSet ==
    (pc = "returned" /\ ~IsStandardData /\ Len(decodedCustomErrorStrings) = 0) =>
        Lines(result) =
            << textIndent \o <<"R","e","v","e","r","t","e","d"," ","w","i","t","h"," ","a"," ","c","u","s","t","o","m"," ","e","r","r","o","r"," ","t","h","a","t"," ","c","a","n","'","t"," ","b","e"," ","d","e","c","o","d","e","d"," ","u","s","i","n","g"," ","t","h","e"," ","p","r","o","v","i","d","e","d"," ","c","o","n","t","r","a","c","t","s",".">>,
               textIndent \o <<"T","r","y"," ","t","o"," ","a","d","d"," ","m","o","r","e"," ","c","o","n","t","r","a","c","t","(","s",")"," ","t","o"," ","t","h","e"," ","c","a","n","d","i","d","a","t","e"," ","s","e","t"," ","t","o"," ","g","e","t"," ","d","e","c","o","d","e","d"," ","e","r","r","o","r",".">> >>

\* C7 amended: the second line is indent + 'Try to add more contract(s) to the
\* "contracts" directory to get decoded error.'; the first line is as stated.
C7_FallbackNamesContractsDirectory ==
    (pc = "returned" /\ ~IsStandardData /\ Len(decodedCustomErrorStrings) = 0) =>
        Lines(result) =
            << textIndent \o <<"R","e","v","e","r","t","e","d"," ","w","i","t","h"," ","a"," ","c","u","s","t","o","m"," ","e","r","r","o","r"," ","t","h","a","t"," ","c","a","n","'","t"," ","b","e"," ","d","e","c","o","d","e","d"," ","u","s","i","n","g"," ","t","h","e"," ","p","r","o","v","i","d","e","d"," ","c","o","n","t","r","a","c","t","s",".">>,
               textIndent \o <<"T","r","y"," ","t","o"," ","a","d","d"," ","m","o","r","e"," ","c","o","n","t","r","a","c","t","(","s",")"," ","t","o"," ","t","h","e"," ","\"","c","o","n","t","r","a","c","t","s","\""," ","d","i","r","e","c","t","o","r","y"," ","t","o"," ","g","e","t"," ","d","e","c","o","d","e","d"," ","e","r","r","o","r",".">> >>

C7_Witness ==
    /\ pc = "returned"
    /\ errorData = <<"0","x","d","e","a","d","b","e","e","f">>
    /\ textIndent = <<" "," "," "," "," "," "," ">>
    /\ Len(deployableContractEntities) = 2
    /\ Len(Lines(result)) = 2

(***************************************************************************)
(* C8                                                                      *)
(***************************************************************************)
\* No compiled artifact has bytecode: the candidate set is empty.
NoDeployableContract ==
    \A i \in 1..Len(artifactFiles) : artifactFiles[i].bytecode = <<"0", "x">>

\* C8: with no deployable contract the forEach of decodeCustomErrorData leaves the
\* list empty for every error data, and for error data without a standard
\* selector the call returns a report that contains "can't be decoded using the
\* provided contracts."
C8_EmptyCandidateSet ==
    (Finished /\ NoDeployableContract) =>
        /\ decodedCustomErrorStrings = <<>>
        /\ ~IsStandardData =>
              /\ pc = "returned"
              /\ Contains(result, <<"c","a","n","'","t"," ","b","e"," ","d","e","c","o","d","e","d"," ","u","s","i","n","g"," ","t","h","e"," ","p","r","o","v","i","d","e","d"," ","c","o","n","t","r","a","c","t","s",".">>)

C8_Witness ==
    /\ pc = "returned"
    /\ NoDeployableContract
    /\ Len(artifactFiles) = 1
    /\ errorData = CustomData(FragZeroAccount, <<>>)
    /\ Contains(result, <<"c","a","n","'","t"," ","b","e"," ","d","e","c","o","d","e","d"," ","u","s","i","n","g"," ","t","h","e"," ","p","r","o","v","i","d","e","d"," ","c","o","n","t","r","a","c","t","s",".">>)

(***************************************************************************)
(* C9                                                                      *)
(***************************************************************************)
\* The candidates the forEach callback has been called on.
Scanned == SubSeq(deployableContractEntities, 1, entityIndex - 1)

\* C9: during and after the scan the list holds one entry for every scanned
\* candidate that decodes the error data and none for another, in candidate
\* order; for ZeroAccount() data, which every candidate of the model decodes, it
\* holds one entry per candidate, also for two candidates of the same contract
\* name.
C9_OneEntryPerDecodingCandidate ==
    (pc = "forEach" \/ Finished) =>
        /\ decodedCustomErrorStrings = MatchesOf(Scanned)
        /\ errorData = CustomData(FragZeroAccount, <<>>) =>
              /\ Len(decodedCustomErrorStrings) = Len(Scanned)
              /\ \A i \in 1..Len(Scanned) :
                    decodedCustomErrorStrings[i] =
                        <<"Z","e","r","o","A","c","c","o","u","n","t","(",")"," ","-","-"," ","f","r","o","m"," ","c","o","n","t","r","a","c","t"," ","\"">>
                        \o Scanned[i].artifact.contractName \o <<"\"">>

C9_Witness ==
    /\ pc = "returned"
    /\ Len(deployableContractEntities) = 2
    /\ deployableContractEntities[1] # deployableContractEntities[2]
    /\ Len(decodedCustomErrorStrings) = 2
    /\ decodedCustomErrorStrings[1] = decodedCustomErrorStrings[2]

(***************************************************************************)
(* C10                                                                     *)
(***************************************************************************)
IsPrefix(s, t) == Len(s) <= Len(t) /\ SubSeq(t, 1, Len(s)) = s

\* C10: a call of the forEach callback on a candidate that does not decode the
\* error data leaves the list as it was and the scan goes on with the next
\* candidate (the call does not throw); no step of the scan removes or changes an
\* entry; when the call ends, parseError has been called on every candidate
\* exactly once, in candidate order.
C10_FailedAttemptIsAbsorbed ==
    [][ /\ (pc = "forEach" /\ entityIndex <= Len(deployableContractEntities)) =>
              /\ pc' = "forEach"
              /\ entityIndex' = entityIndex + 1
              /\ IsPrefix(decodedCustomErrorStrings, decodedCustomErrorStrings')
              /\ ~Decodes(deployableContractEntities[entityIndex]) =>
                     decodedCustomErrorStrings' = decodedCustomErrorStrings
        /\ IsPrefix(parseAttempts, parseAttempts')
        /\ (pc' \in {"returned", "thrown"}) =>
              parseAttempts' = [i \in 1..Len(deployableContractEntities) |-> i]
      ]_vars

C10_Witness ==
    /\ pc = "returned"
    /\ Len(deployableContractEntities) = 3
    /\ Decodes(deployableContractEntities[1])
    /\ ~Decodes(deployableContractEntities[2])
    /\ Decodes(deployableContractEntities[3])
    /\ Len(decodedCustomErrorStrings) = 2
    /\ parseAttempts = <<1, 2, 3>>

(***************************************************************************)
(* C11                                                                     *)
(***************************************************************************)
\* The error name and the string forms of the decoded arguments, in declaration
\* order, of the well-formed custom error data of the model.
SpecErrorName(data) ==
    IF startsWith(data, FragZeroAccount.sighash) THEN <<"Z","e","r","o","A","c","c","o","u","n","t">>
    ELSE IF startsWith(data, FragAmountExcess.sighash) THEN <<"A","m","o","u","n","t","E","x","c","e","s","s">>
    ELSE IF startsWith(data, FragHashMismatch.sighash) THEN <<"H","a","s","h","M","i","s","m","a","t","c","h">>
    ELSE <<"O","p","e","r","a","t","i","o","n","F","a","i","l","e","d">>

SpecArgStrings(data) ==
    CASE data = CustomData(FragZeroAccount, <<>>) -> <<>>
      [] data = CustomData(FragAmountExcess, Word(42)) -> << <<"4","2">> >>
      [] data = CustomData(FragAmountExcess, WordMax) ->
             << <<"1","1","5","7","9","2","0","8","9","2","3","7","3","1","6","1","9","5","4","2","3","5","7","0","9","8","5","0","0","8","6","8","7","9","0","7","8","5","3","2","6","9","9","8","4","6","6","5","6","4","0","5","6","4","0","3","9","4","5","7","5","8","4","0","0","7","9","1","3","1","2","9","6","3","9","9","3","5">> >>
      [] data = CustomData(FragHashMismatch, [i \in 1..32 |-> 171]) ->
             << <<"0","x","a","b","a","b","a","b","a","b","a","b","a","b","a","b","a","b","a","b","a","b","a","b","a","b","a","b","a","b","a","b","a","b","a","b","a","b","a","b","a","b","a","b","a","b","a","b","a","b","a","b","a","b","a","b","a","b","a","b","a","b","a","b","a","b">> >>
      [] data = CustomData(FragOperationFailed,
                           Word(64) \o Word(7) \o encodeStringTail(<<"0","x","d","e","a","d">>)) ->
             << <<"0","x","d","e","a","d">>, <<"7">> >>
      [] data = CustomData(FragOperationFailed,
                           Word(64) \o WordMaxSafe \o encodeStringTail(<<"l","i","m","i","t">>)) ->
             << <<"l","i","m","i","t">>, <<"9","0","0","7","1","9","9","2","5","4","7","4","0","9","9","1">> >>
      [] data = CustomData(FragOperationFailed,
                           Word(64) \o Word(0) \o encodeStringTail(<<"a","0","x">>)) ->
             << <<"a","0","x">>, <<"0">> >>

\* The rendering the claim gives an argument: in double quotes exactly when its
\* string form begins with "0x".
SpecRendered(argString) ==
    IF Len(argString) >= 2 /\ argString[1] = "0" /\ argString[2] = "x"
    THEN <<"\"">> \o argString \o <<"\"">>
    ELSE argString

RECURSIVE SpecJoined(_)
\* The renderings in order, joined by ", ".
SpecJoined(argStrings) ==
    IF Len(argStrings) = 0 THEN <<>>
    ELSE IF Len(argStrings) = 1 THEN SpecRendered(argStrings[1])
    ELSE SpecRendered(argStrings[1]) \o <<","," ">> \o SpecJoined(Tail(argStrings))

\* C11: in every custom-error match, between the parentheses after the error
\* name stand the decoded arguments in declaration order, joined by ", ", an
\* argument in double quotes exactly when its string form begins with "0x" and
\* unchanged otherwise.
C11_ArgumentsQuotedWhenHex ==
    (errorData \in WellFormedCustomData) =>
        \A i \in 1..Len(decodedCustomErrorStrings) :
            startsWith(decodedCustomErrorStrings[i],
                       SpecErrorName(errorData) \o <<"(">>
                       \o SpecJoined(SpecArgStrings(errorData)) \o <<")"," ","-","-"," ","f","r","o","m"," ","c","o","n","t","r","a","c","t"," ">>)

C11_Witness ==
    /\ pc = "returned"
    /\ errorData = CustomData(FragOperationFailed,
                              Word(64) \o Word(7) \o encodeStringTail(<<"0","x","d","e","a","d">>))
    /\ Len(decodedCustomErrorStrings) = 1
    /\ decodedCustomErrorStrings[1] =
           <<"O","p","e","r","a","t","i","o","n","F","a","i","l","e","d","(","\"","0","x","d","e","a","d","\"",","," ","7",")"," ","-","-"," ","f","r","o","m"," ","c","o","n","t","r","a","c","t"," ","\"","C","a","r","d","P","a","y","m","e","n","t","P","r","o","c","e","s","s","o","r","\"">>

(***************************************************************************)
(* C12                                                                     *)
(***************************************************************************)
FallbackReport ==
    textIndent \o <<"R","e","v","e","r","t","e","d"," ","w","i","t","h"," ","a"," ","c","u","s","t","o","m"," ","e","r","r","o","r"," ","t","h","a","t"," ","c","a","n","'","t"," ","b","e"," ","d","e","c","o","d","e","d"," ","u","s","i","n","g"," ","t","h","e"," ","p","r","o","v","i","d","e","d"," ","c","o","n","t","r","a","c","t","s",".">>
    \o NewLine \o textIndent \o TryToAddText

\* C12: for error data of fewer than four bytes, the empty byte string included,
\* no candidate is reported as a match at any point of the scan, and the call
\* returns the report of unclassified error data without a match (it does not
\* throw, as a failed standard decode would).
C12_ShortDataIsUnclassified ==
    (Len(ErrorBytes) < 4) =>
        /\ decodedCustomErrorStrings = <<>>
        /\ pc # "thrown"
        /\ pc = "returned" => result = FallbackReport

C12_Witness ==
    /\ pc = "returned"
    /\ errorData = <<"0","x","b","f","c","f","3","c">>
    /\ Len(deployableContractEntities) = 3
    /\ parseAttempts = <<1, 2, 3>>
    /\ result = FallbackReport

(***************************************************************************)
(* C14                                                                     *)
(***************************************************************************)
\* The payload after a standard selector is a well-formed encoding of the fixed
\* parameter type: of a string of the model, resp. of 32 bytes for the integer.
WellFormedStandardPayload ==
    \/ \E s \in Messages : IsRevertOf(s)
    \/ HasSelector(PanicSelectorBytes) /\ Len(PayloadBytes) >= 32

\* C14 as stated: the call throws only for error data with a standard selector
\* and a malformed payload; for every error data without a standard selector and
\* every candidate list it returns a report.
C14_OnlyMalformedStandardPayloadFails ==
    /\ pc = "thrown" => (IsStandardData /\ ~WellFormedStandardPayload)
    /\ (Finished /\ ~IsStandardData) => (pc = "returned" /\ Len(result) > 0)

(***************************************************************************)
(* C16                                                                     *)
(***************************************************************************)
\* C16 as stated: for every well-formed Panic(uint256) error data, with a code
\* from 0 to 2^256 - 1, the call returns a report that starts with a 'Panicked
\* with the code' line, with the reason "???" for a code outside the table.
C16_PanicDecodingIsTotal ==
    \A w \in PanicCodeWords :
        (Finished /\ IsPanicOf(w)) =>
            /\ pc = "returned"
            /\ IsLineOfKind(result, <<"P","a","n","i","c","k","e","d"," ","w","i","t","h"," ","t","h","e"," ","c","o","d","e",":"," ","\"">>)
            /\ CodeOf(w) \notin TablePanicCodes =>
                   Contains(FirstLine(result), <<"\"","(","?","?","?",")",".">>)

(***************************************************************************)
(* C17                                                                     *)
(***************************************************************************)
RECURSIVE DeployableOf(_)
\* The artifacts of non-empty bytecode, in order.
DeployableOf(artifactSeq) ==
    IF Len(artifactSeq) = 0 THEN <<>>
    ELSE (IF Head(artifactSeq).bytecode # <<"0","x">> THEN <<Head(artifactSeq)>> ELSE <<>>)
         \o DeployableOf(Tail(artifactSeq))

\* The artifacts whose iteration of the for-of loop is over.
Enumerated ==
    IF pc \in {"readArtifact", "getContractFactory"}
    THEN SubSeq(artifactFiles, 1, nameIndex - 1)
    ELSE IF pc = "getAllFullyQualifiedNames" THEN <<>>
    ELSE artifactFiles

\* C17: at every point of getDeployableContractEntities, and after it, the
\* entities are the enumerated artifacts of non-empty bytecode, in the order of
\* the names, each with the factory of its own ABI, and getContractFactory has
\* been called with the names of exactly these artifacts.
C17_CandidatesAreDeployableArtifacts ==
    LET expected == DeployableOf(Enumerated)
    IN  /\ deployableContractEntities =
               [i \in 1..Len(expected) |->
                   [artifact |-> expected[i],
                    contractFactory |-> [interface |-> expected[i].errors]]]
        /\ factoryRequests = [i \in 1..Len(expected) |-> expected[i].fullName]

C17_Witness ==
    /\ pc = "forEach"
    /\ Len(artifactFiles) = 3
    /\ artifactFiles[2].bytecode = <<"0","x">>
    /\ Len(deployableContractEntities) = 2
    /\ deployableContractEntities[2].artifact = artifactFiles[3]
    /\ Len(factoryRequests) = 2

(***************************************************************************)
(* C19                                                                     *)
(***************************************************************************)
\* C19: a returned report starts with indent and does not end with a line
\* break; when there are matches, every line after the first is indent, two
\* spaces and a match (which does not begin with a space); without a standard
\* selector and without a match both lines start with indent and the text.
C19_ReportLayout ==
    pc = "returned" =>
        LET lines == Lines(result)
        IN  /\ startsWith(result, textIndent)
            /\ Len(result) > Len(textIndent)
            /\ result[Len(textIndent) + 1] # " "
            /\ result[Len(result)] # "\n"
            /\ Len(lines) > 1 =>
                  IF Len(decodedCustomErrorStrings) > 0
                  THEN /\ Len(lines) = 1 + Len(decodedCustomErrorStrings)
                       /\ \A i \in 2..Len(lines) :
                             /\ lines[i] = textIndent \o <<" "," ">>
                                           \o decodedCustomErrorStrings[i - 1]
                             /\ lines[i][Len(textIndent) + 3] # " "
                  ELSE /\ Len(lines) = 2
                       /\ startsWith(lines[1], textIndent \o <<"R","e","v","e","r","t","e","d">>)
                       /\ startsWith(lines[2], textIndent \o <<"T","r","y">>)

C19_Witness ==
    /\ pc = "returned"
    /\ textIndent = <<" "," "," "," "," "," "," ">>
    /\ Len(decodedCustomErrorStrings) = 2
    /\ IsStandardData
    /\ Len(Lines(result)) = 3

(***************************************************************************)
(* C13                                                                     *)
(***************************************************************************)
\* main has called decodeErrorData with a standard selector before a payload
\* that is not an encoding of the selector's parameter type.
MalformedStandardCall ==
    /\ pc # "idle"
    /\ IsStandardData
    /\ ~WellFormedStandardPayload

ReportPrinted == \E i \in 1..Len(output) : output[i].line = "report"

\* C13: when decodeErrorData is called on a standard selector with a payload
\* that cannot be decoded, no report is composed, whether no candidate or some
\* candidate matched; the call returns no report string, ends by throwing, and
\* main, which called it, never goes on to its end and prints no report: the
\* error leaves main.
C13_MalformedStandardPayloadIsFatal ==
    MalformedStandardCall =>
        /\ \A strings \in {decodedCustomErrorStrings,
                           << <<"Z","e","r","o","A","c","c","o","u","n","t","(",")"," ","-","-"," ","f","r","o","m"," ","c","o","n","t","r","a","c","t"," ","\"","T","o","k","e","n","\"">> >>} :
               ~composeReport(errorData, textIndent, strings).ok
        /\ pc # "returned"
        /\ result = <<>>
        /\ ~ReportPrinted
        /\ mainPc \in {"decodeErrorData", "rejected"}
        /\ mainPc = "rejected" => pc = "thrown"

C13_Witness ==
    /\ mainPc = "rejected"
    /\ pc = "thrown"
    /\ errorData = RevertSelectorText \o HexOfBytes(Word(32))
    /\ parseAttempts = <<1, 2>>
    /\ ~ReportPrinted

(***************************************************************************)
(* C15                                                                     *)
(***************************************************************************)
\* C15: a call of decodeErrorData that has ended, ended as every earlier call
\* with the same errorData and the same indent over the same artifacts did:
\* the same list from decodeCustomErrorData, the same outcome (returned or
\* thrown) and the same report, whatever calls were made in between.
C15_EqualCallsEqualResults ==
    pc \in {"returned", "thrown"} =>
        \A call \in previousCalls :
            (call.errorData = errorData /\ call.textIndent = textIndent) =>
                /\ call.outcome = pc
                /\ call.decodedCustomErrorStrings = decodedCustomErrorStrings
                /\ call.result = result

C15_Witness ==
    /\ pc = "returned"
    /\ enumerations = 3
    /\ errorData = CustomData(FragZeroAccount, <<>>)
    /\ Len(decodedCustomErrorStrings) = 2
    /\ \E call \in previousCalls :
           call.errorData = errorData /\ call.textIndent = textIndent
    /\ \E call \in previousCalls : call.outcome = "thrown"

(***************************************************************************)
(* C18                                                                     *)
(***************************************************************************)
\* C18: in a run of main the names are enumerated at most once; a decode
\* attempt is made only when the loop over all names is over and the factory
\* of every artifact with bytecode has been resolved; and from the first
\* attempt on the entities, the factory requests and the enumeration count do
\* not change.
C18_CandidateSetBuiltOnceBeforeMatching ==
    [][ /\ enumerations' <= 1
        /\ parseAttempts' # parseAttempts =>
              /\ enumerations = 1
              /\ nameIndex > Len(contractFullNames)
              /\ Len(contractFullNames) = Len(artifactFiles)
              /\ Len(factoryRequests) = Len(DeployableOf(artifactFiles))
              /\ Len(deployableContractEntities) = Len(factoryRequests)
        /\ (parseAttempts # <<>> \/ parseAttempts' # <<>>) =>
              UNCHANGED <<deployableContractEntities, factoryRequests, enumerations,
                          contractFullNames, nameIndex>>
      ]_vars

C18_Witness ==
    /\ mainPc = "decodeErrorData"
    /\ Len(artifactFiles) = 3
    /\ Len(deployableContractEntities) = 2
    /\ parseAttempts = <<1, 2>>
    /\ enumerations = 1

(***************************************************************************)
(* C20                                                                     *)
(***************************************************************************)
\* The requests of a replay and their completions, in the order of the claim.
SpecFetch ==
    << [event |-> "request", method |-> "getTransaction",
        provider |-> rpcUrl, transactionHash |-> txHash],
       [event |-> "settled", method |-> "getTransaction"] >>

SpecReplay ==
    << [event |-> "request", method |-> "hardhat_reset",
        jsonRpcUrl |-> rpcUrl, blockNumber |-> txResponse.blockNumber.value - 1],
       [event |-> "settled", method |-> "hardhat_reset"],
       [event |-> "request", method |-> "evm_mine"],
       [event |-> "settled", method |-> "evm_mine"],
       [event |-> "request", method |-> "sendTransaction",
        signedTransaction |-> txResponse.raw.value],
       [event |-> "settled", method |-> "sendTransaction"] >>

Logged(line) == \E i \in 1..Len(output) : output[i].line = line

\* C20: the requests main has sent and their completions are a prefix of:
\* the transaction fetched by the hash from the RPC URL, hardhat_reset forking
\* that URL at the transaction's block number minus one, evm_mine, and the
\* raw transaction sent once, each request after the completion of the one
\* before; and decodeErrorData is called only when all of them are complete
\* and the transaction was rejected.
C20_FixedOrderOfExternalSteps ==
    /\ IF Len(callLog) <= 2
       THEN IsPrefix(callLog, SpecFetch)
       ELSE /\ txResponse.exists
            /\ txResponse.blockNumber.defined
            /\ txResponse.raw.defined
            /\ IsPrefix(callLog, SpecFetch \o SpecReplay)
    /\ pc # "idle" =>
          /\ callLog = SpecFetch \o SpecReplay
          /\ Logged("Transaction sending failed!")
          /\ ~Logged("The transaction has been sent successfully!")

C20_Witness ==
    /\ mainPc = "decodeErrorData"
    /\ pc = "forEach"
    /\ Len(callLog) = 8
    /\ txResponse.blockNumber.value = 2
    /\ callLog[3].blockNumber = 1
    /\ callLog[3].jsonRpcUrl = callLog[1].provider

(***************************************************************************)
(* C21                                                                     *)
(***************************************************************************)
\* C21 as stated: a call of decodeErrorData that has ended, ended as the call
\* before it with the same indent and an errorData of the same bytes in another
\* letter case did: the same outcome and the same report.
C21_SameBytesSameReport ==
    pc \in {"returned", "thrown"} =>
        \A call \in previousCalls :
            (arrayify(call.errorData) = arrayify(errorData)
             /\ call.textIndent = textIndent) =>
                /\ call.outcome = pc
                /\ call.result = result

(***************************************************************************)
(* C22                                                                     *)
(***************************************************************************)
\* Every resolution call of the scan has returned: the names, every artifact,
\* and the factory of every artifact with bytecode.
AllResolved ==
    /\ enumerations >= 1
    /\ Len(contractFullNames) = Len(artifactFiles)
    /\ nameIndex > Len(contractFullNames)
    /\ Len(factoryRequests) = Len(DeployableOf(artifactFiles))

\* One decode attempt for every candidate, in order.
OneAttemptPerCandidate ==
    parseAttempts = [i \in 1..Len(DeployableOf(artifactFiles)) |-> i]

\* C22: when every awaited call returns, the call of decodeErrorData ends, with
\* a report or thrown, after one decode attempt for every candidate; and a step
\* ends the call only when every resolution call has returned, so that a call
\* that never returns leaves decodeErrorData without a report for ever (no step
\* of a waiting call ends it).
C22_EndsWhenCallsReturn ==
    /\ <>(Finished /\ OneAttemptPerCandidate)
    /\ [][ /\ (Finished' /\ ~Finished) => (AllResolved /\ OneAttemptPerCandidate)
           /\ pc \in {"getAllFullyQualifiedNames", "readArtifact", "getContractFactory"} =>
                 (~Finished' /\ result' = result)
         ]_vars

C22_Witness ==
    /\ pc = "returned"
    /\ Len(artifactFiles) = 3
    /\ Len(deployableContractEntities) = 3
    /\ parseAttempts = <<1, 2, 3>>
    /\ IsStandardData

(***************************************************************************)
(* C23                                                                     *)
(***************************************************************************)
\* The fetch of the transaction has resolved (it was not rejected).
FetchResolved ==
    /\ Len(callLog) >= 2
    /\ ~(mainPc = "rejected" /\ Len(callLog) = 2)

\* The message main prints for a response that cannot be replayed.
SpecNotReplayableMessage ==
    IF ~txResponse.exists
    THEN "The transaction with the provided hash does not exist."
    ELSE IF ~txResponse.blockNumber.defined \/ txResponse.blockNumber.value = 0
    THEN "The transaction with the provided hash has not been minted yet."
    ELSE "The transaction does not have the raw data with the signature. Check the RPC!"

\* C23: when the fetch resolved with no transaction, with a block number that
\* is missing or 0, or without raw data (none or empty), main has printed the message of that
\* case as its last line and has returned; its only request is the fetch (no
\* hardhat_reset, evm_mine or sendTransaction), no names were enumerated, no
\* decoding was started and no report printed.
C23_NotReplayableLeavesNetworkUntouched ==
    (/\ FetchResolved
     /\ \/ ~txResponse.exists
        \/ ~txResponse.blockNumber.defined
        \/ txResponse.blockNumber.value = 0
        \/ ~txResponse.raw.defined
        \/ Len(txResponse.raw.value) = 0) =>
        /\ mainPc = "resolved"
        /\ callLog = SpecFetch
        /\ output[Len(output)].line = SpecNotReplayableMessage
        /\ pc = "idle"
        /\ enumerations = 0
        /\ factoryRequests = <<>>
        /\ parseAttempts = <<>>
        /\ ~ReportPrinted

C23_Witness ==
    /\ mainPc = "resolved"
    /\ txResponse.exists
    /\ txResponse.blockNumber = Defined(0)
    /\ txResponse.raw = Defined(RawTransaction)
    /\ Len(callLog) = 2
    /\ Logged("The transaction with the provided hash has not been minted yet.")

(***************************************************************************)
(* C24                                                                     *)
(***************************************************************************)
LinesLogged(line) == {i \in 1..Len(output) : output[i].line = line}

\* The error data main logged in its catch block, as text.
LoggedErrorData == output[CHOOSE i \in LinesLogged("The error data:") : TRUE].text

\* C24: in a run of main decodeErrorData is called at most once, and only after
\* the submission was rejected with error data that is present and longer than
\* two characters, which is the data it decodes; when main has ended after an
\* accepted submission, or after a rejection whose error data is missing or
\* "0x", no names were enumerated, no decoding started and no report printed.
C24_DecodingOnlyOfPresentErrorData ==
    /\ Cardinality(LinesLogged("The result of error data decoding:")) <= 1
    /\ enumerations <= 1
    /\ pc # "idle" =>
          /\ Logged("Transaction sending failed!")
          /\ Cardinality(LinesLogged("The result of error data decoding:")) = 1
          /\ LoggedErrorData = errorData
          /\ Len(errorData) > 2
          /\ errorData # <<"u","n","d","e","f","i","n","e","d">>
    /\ (\/ Logged("The transaction has been sent successfully!")
        \/ /\ Logged("Transaction sending failed!")
           /\ LoggedErrorData \in {<<"u","n","d","e","f","i","n","e","d">>, <<"0","x">>}) =>
          /\ mainPc = "resolved"
          /\ pc = "idle"
          /\ enumerations = 0
          /\ ~Logged("The result of error data decoding:")
          /\ ~ReportPrinted

C24_Witness ==
    /\ mainPc = "resolved"
    /\ Logged("Transaction sending failed!")
    /\ LoggedErrorData = <<"0","x">>
    /\ pc = "idle"
    /\ Len(callLog) = 8

(***************************************************************************)
(* C25                                                                     *)
(***************************************************************************)
\* C25: once the script has run its synchronous part, FINISHED is in the output
\* exactly once, right after main's first lines (the last of them the line
\* before the fetch), and before the line of every step that follows the
\* fetch; it is there while the fetch is still awaited, and while main has not
\* ended.
C25_FinishedBeforeTheFetchResolves ==
    mainPc # "start" =>
        /\ LinesLogged("FINISHED") = {8}
        /\ output[1].line = "STARTED"
        /\ output[4].line = "Replaying the transaction with hash"
        /\ output[7].line = "Getting the transaction response from the original network ..."
        /\ \A line \in {"The transaction with the provided hash does not exist.",
                        "The transaction has been gotten successfully:",
                        "Resetting the Hardhat network with forking for the previous block ...",
                        "The resetting has done successfully. The current block:",
                        "Sending the transaction to the forked network ...",
                        "Transaction sending failed!",
                        "report"} :
               \A i \in LinesLogged(line) : i > 8
        /\ mainPc = "getTransaction" => (Len(output) = 8 /\ Len(callLog) = 1)

C25_Witness ==
    /\ mainPc = "decodeErrorData"
    /\ pc = "readArtifact"
    /\ Logged("FINISHED")
    /\ ~ReportPrinted

(***************************************************************************)
(* CardPaymentProcessor: the life of a payment                             *)
(***************************************************************************)
\* The status of the payment of an id changes from one status to another.
StatusChanges(id, from, to) ==
    /\ payments[id].status = from
    /\ payments'[id].status = to

\* The payment of the id is finalized.
Finalized(id) == payments[id].status \in {"Reversed", "Confirmed"}

\* Every call of makePayment and makePaymentFrom for the id reverts.
CannotBeMadeAgain(id) ==
    \A amount \in Amounts, tokenOk \in BOOLEAN :
        /\ \A sender \in Customers :
              makePayment(Storage, sender, amount, id, tokenOk)
                  = Reverted(Error("PaymentAlreadyExists"))
        /\ \A account \in Customers :
              makePaymentFrom(Storage, Executor, account, amount, id, tokenOk)
                  = Reverted(Error("PaymentAlreadyExists"))

\* The change of status of one payment in a step, if any, is an edge of the
\* status diagram taken by the operation of that edge.
AlongAnEdge(id) ==
    \/ payments'[id].status = payments[id].status
    \/ /\ StatusChanges(id, "Nonexistent", "Uncleared") \/ StatusChanges(id, "Revoked", "Uncleared")
       /\ MakePayment \/ MakePaymentFrom
    \/ /\ StatusChanges(id, "Uncleared", "Cleared")
       /\ ClearPayment \/ ClearPayments
    \/ /\ StatusChanges(id, "Cleared", "Uncleared")
       /\ UnclearPayment \/ UnclearPayments
    \/ /\ StatusChanges(id, "Cleared", "Confirmed")
       /\ ConfirmPayment \/ ConfirmPayments
    \/ /\ StatusChanges(id, "Uncleared", "Reversed") \/ StatusChanges(id, "Cleared", "Reversed")
       /\ ReversePayment
    \/ /\ StatusChanges(id, "Uncleared", "Revoked") \/ StatusChanges(id, "Cleared", "Revoked")
       /\ RevokePayment

\* C26: the status of a payment changes only along the edges
\* Nonexistent->Uncleared and Revoked->Uncleared (make), Uncleared->Cleared
\* (clear), Cleared->Uncleared (unclear), Cleared->Confirmed (confirm),
\* Uncleared|Cleared->Reversed (reverse) and Uncleared|Cleared->Revoked
\* (revoke); a Reversed or Confirmed payment keeps its status and every
\* attempt to make it again reverts.
C26_StatusChangesAlongTheEdges ==
    /\ [](\A id \in AuthorizationIds : Finalized(id) => CannotBeMadeAgain(id))
    /\ [][\A id \in AuthorizationIds :
              /\ AlongAnEdge(id)
              /\ Finalized(id) => payments'[id].status = payments[id].status]_vars

\* One payment is finalized while another, revoked before, has been made again.
C26_Witness ==
    \E id \in AuthorizationIds, other \in AuthorizationIds :
        /\ Finalized(id)
        /\ payments[other].status = "Uncleared"
        /\ payments[other].revocationCounter > 0

\* Every call of an operation of the payment for the id reverts.
EveryOperationReverts(id) ==
    \A amount \in Amounts, tokenOk \in BOOLEAN :
        /\ \A sender \in Customers : makePayment(Storage, sender, amount, id, tokenOk).reverted
        /\ \A account \in Customers :
              makePaymentFrom(Storage, Executor, account, amount, id, tokenOk).reverted
        /\ updatePaymentAmount(Storage, Executor, amount, id, tokenOk).reverted
        /\ clearPayment(Storage, Executor, id).reverted
        /\ unclearPayment(Storage, Executor, id).reverted
        /\ confirmPayment(Storage, Executor, id, tokenOk).reverted
        /\ \A parentTxHash \in ParentTxHashes :
              /\ reversePayment(Storage, Executor, id, parentTxHash, tokenOk).reverted
              /\ revokePayment(Storage, Executor, id, parentTxHash, tokenOk).reverted
        /\ refundPayment(Storage, Executor, amount, id, tokenOk).reverted

\* C27: after confirmPayment or reversePayment has succeeded for an id, every
\* later makePayment, makePaymentFrom, updatePaymentAmount, clearPayment,
\* unclearPayment, confirmPayment, reversePayment, revokePayment and
\* refundPayment on that id reverts, which leaves the payment unchanged.
C27_FinalizedPaymentRejectsEveryOperation ==
    \A id \in AuthorizationIds : Finalized(id) => EveryOperationReverts(id)

(***************************************************************************)
(* CardPaymentProcessor: the balances                                      *)
(***************************************************************************)
RECURSIVE SumOfBalances(_, _)
\* The sum of balances[account] over a set of accounts.
SumOfBalances(balances, accounts) ==
    IF accounts = {} THEN 0
    ELSE LET account == CHOOSE a \in accounts : TRUE
         IN  balances[account] + SumOfBalances(balances, accounts \ {account})

RECURSIVE SumOfPayments(_, _, _)
\* The sum of amount - refundAmount over the payments of an account that are
\* in a status, among the payments of the given ids.
SumOfPayments(account, status, ids) ==
    IF ids = {} THEN 0
    ELSE LET id == CHOOSE i \in ids : TRUE
             payment == payments[id]
             share == IF payment.account = account /\ payment.status = status
                      THEN payment.amount - payment.refundAmount
                      ELSE 0
         IN  share + SumOfPayments(account, status, ids \ {id})

\* C28: the total uncleared (cleared) balance is the sum of the accounts'
\* uncleared (cleared) balances, and the uncleared (cleared) balance of each
\* account is the sum of amount - refundAmount over its Uncleared (Cleared)
\* payments, in every state reached by successful operations, single or batch.
C28_BalancesAreSums ==
    /\ totalUnclearedBalance = SumOfBalances(unclearedBalances, Accounts)
    /\ totalClearedBalance = SumOfBalances(clearedBalances, Accounts)
    /\ \A account \in Accounts :
          /\ unclearedBalances[account] = SumOfPayments(account, "Uncleared", AuthorizationIds)
          /\ clearedBalances[account] = SumOfPayments(account, "Cleared", AuthorizationIds)

\* A partly refunded payment has been cleared next to an uncleared payment
\* of the same account.
C28_Witness ==
    \E id \in AuthorizationIds, other \in AuthorizationIds :
        /\ payments[id].status = "Cleared"
        /\ payments[id].refundAmount > 0
        /\ payments[id].refundAmount < payments[id].amount
        /\ payments[other].status = "Uncleared"
        /\ payments[other].amount > 0
        /\ payments[other].account = payments[id].account

(***************************************************************************)
(* CardPaymentProcessor: the revocation limit                              *)
(***************************************************************************)
\* The payment of the id, revoked before the step, is made again in the step.
MadeAgain(id) == StatusChanges(id, "Revoked", "Uncleared")

\* C29: a Revoked payment is made again only while its revocation counter is
\* below the revocation limit; under a limit of 0 or 1 no payment is made
\* again after its revocation, and under a limit of 0 every call of
\* revokePayment reverts with RevocationLimitReached(0).
C29_MadeAgainOnlyBelowTheLimit ==
    /\ [](revocationLimit = 0 =>
              \A id \in AuthorizationIds \cup {ZeroAuthorizationId},
                 parentTxHash \in ParentTxHashes \cup {ZeroParentTransactionHash},
                 tokenOk \in BOOLEAN :
                  revokePayment(Storage, Executor, id, parentTxHash, tokenOk)
                      = Reverted(ErrorOf("RevocationLimitReached", 0)))
    /\ [][\A id \in AuthorizationIds :
              MadeAgain(id) =>
                  /\ payments[id].revocationCounter < revocationLimit
                  /\ revocationLimit \notin {0, 1}]_vars

\* A revoked payment waits under a limit of 1 that its counter has reached,
\* while another payment has been made again after its revocation.
C29_Witness ==
    \E id \in AuthorizationIds, other \in AuthorizationIds :
        /\ payments[id].status = "Revoked"
        /\ payments[id].revocationCounter = 1
        /\ revocationLimit = 1
        /\ payments[other].status = "Uncleared"
        /\ payments[other].revocationCounter = 1

\* C30: setRevocationLimit asks for the executor role: called by an account
\* with EXECUTOR_ROLE it sets the new limit, emitting SetRevocationLimit when
\* the limit differs from the old one, and called by an account without
\* EXECUTOR_ROLE it reverts, which leaves the limit unchanged.
C30_SetRevocationLimitAsksForTheExecutorRole ==
    \A sender \in Accounts, newLimit \in RevocationLimits :
        LET outcome == setRevocationLimit(Storage, sender, newLimit)
        IN  IF hasRole(Storage, EXECUTOR_ROLE, sender)
            THEN /\ ~outcome.reverted
                 /\ outcome.storage.revocationLimit = newLimit
                 /\ (outcome.events # <<>>) = (newLimit # revocationLimit)
            ELSE outcome.reverted
====
